---- MODULE Spec2Model ----
(***************************************************************************)
(* OnyxFPV OSD Tool: the OSD decode -> glyph addressing -> compositing ->  *)
(* streaming export pipeline (osd_parser.py, font_loader.py,               *)
(* osd_renderer.py, video_processor.py, the export worker of main.py).     *)
(*                                                                         *)
(* Text is a sequence of code points (TLC cannot index a string), an       *)
(* Optional value is the empty set (None) or a singleton.                  *)
(***************************************************************************)
EXTENDS Integers, Sequences, FiniteSets, TLC

VARIABLES
    raw,        \* the bytes of the .osd file given to parse_osd
    outcome,    \* "none" before parse_osd, then "ok" or the error it raised
    osd,        \* the OsdFile parse_osd returned
    q_time,     \* the argument of the last frame_at_time call
    q_ret,      \* what it returned: None, or the position of the frame in osd.frames
    font,       \* the OsdFont in use, None before one is loaded
    gc_code,    \* the argument of the last OsdFont.get_char call
    gc_ret,     \* what it returned: None, or the rectangle cropped from the sheet
    gc_raised,  \* whether that call raised
    rdr,        \* the OsdRenderer of the export job, None before it is built
    glyphs,     \* its _glyphs: code -> the resized glyph and its alpha mask
    srt_cache,  \* its _srt_cache: <<key, entry>> pairs in insertion order
    frame_buf,  \* its _frame_buf: pixel <<x, y>> -> <<r, g, b, a>>
    c_call,     \* the arguments of the last rendering call, when it was composite
    c_pastes,   \* every pixel that call blended: source, destination, result
    pil_call,   \* the arguments of that call, when it was render_osd_frame
    pil_ret,    \* the image it returned
    job,        \* the arguments of _overlay_pipeline, None before it is called
    wk,         \* the export worker thread: its position and its locals
    written,    \* what went into the encoder's stdin, in order
    progress,   \* the percents handed to progress_callback, in order
    proc,       \* the encoder subprocess (ffmpeg_proc), log: all it wrote to stderr
    errpipe,    \* its stderr pipe: the chunks written and not yet read
    drain,      \* the _drain thread: its position and its chunks list
    store,      \* _overlay_stderr_store[0]
    result,     \* what the worker's run() emitted as finished(ok, msg)
    stop_flag,  \* ProcessWorker._stop
    _hw_probe_cache, \* the module global: None, the empty dict, or a found encoder
    thr,        \* the calls of detect_hw_encoder, by calling thread
    binary,     \* the candidates compiled into the encoder binary
    runs,       \* candidate -> test encodes spawned so far in this process
    cache_writes, \* assignments to _hw_probe_cache so far
    first_ret,  \* what the first call that returned gave back
    hw_check,   \* the GPU acceleration check box
    gpu,        \* _gpu_done[0], _gpu_result[0] and whether the poll timer runs
    exports,    \* exports started so far
    pconfig,    \* the ProcessingConfig given to process_video and what is on disk
    pv,         \* process_video: its position and its locals
    spawns,     \* the encoder invocations it launched, in order
    produced,   \* whether an output file was produced
    look,       \* the last cache lookup: which cache, the key, hit or miss
    placed,     \* the last cell a renderer was given alone, and what it did with it
    dec         \* the decoder subprocess (dec_proc) of the SRT-only pipeline

osdVars == <<raw, outcome, osd, q_time, q_ret>>
fontVars == <<font, gc_code, gc_ret, gc_raised>>
renderVars == <<rdr, glyphs, srt_cache, frame_buf, c_call, c_pastes, pil_call, pil_ret>>
exportVars == <<job, wk, written, progress, proc, errpipe, drain, store, result, stop_flag>>
probeVars == <<_hw_probe_cache, thr, binary, runs, cache_writes, first_ret,
               hw_check, gpu, exports>>
startVars == <<pconfig, pv, spawns, produced>>
sideVars == <<look, placed, dec>>
restVars == <<probeVars, startVars, sideVars>>
jobVars == <<exportVars, restVars>>
vars == <<raw, outcome, osd, q_time, q_ret, font, gc_code, gc_ret, gc_raised,
          rdr, glyphs, srt_cache, frame_buf, c_call, c_pastes, pil_call, pil_ret,
          job, wk, written, progress, proc, errpipe, drain, store, result, stop_flag,
         _hw_probe_cache, thr, binary, runs, cache_writes, first_ret,
         hw_check, gpu, exports, pconfig, pv, spawns, produced, look, placed, dec>>

None == {}
Some(v) == {v}
TheOne(s) == CHOOSE v \in s : TRUE

\* no renderer built, nothing rendered
RenderIdle ==
    /\ rdr = None
    /\ glyphs = <<>>
    /\ srt_cache = <<>>
    /\ frame_buf = <<>>
    /\ c_call = None
    /\ c_pastes = {}
    /\ pil_call = None
    /\ pil_ret = None

\* the export worker at pc, before _overlay_pipeline has set its locals
Worker(pc) ==
    [pc |-> pc, i |-> 0, t_start |-> [m |-> <<>>, e |-> 0], n_out_frames |-> 0,
     osd_in_window |-> FALSE, osd_trimmed_warning |-> "", frame_cache |-> <<>>,
     exc |-> "none"]

\* no export job: no worker thread, no subprocess
ExportIdle ==
    /\ job = None
    /\ wk = Worker("idle")
    /\ written = <<>>
    /\ progress = <<>>
    /\ proc = [state |-> "none"]
    /\ errpipe = <<>>
    /\ drain = [pc |-> "none"]
    /\ store = <<>>
    /\ result = None
    /\ stop_flag = FALSE

\* an encoder name is the tuple of the words its "_" joins
_HW_CANDIDATES ==
    << [h264 |-> <<"h264", "nvenc">>, h265 |-> <<"hevc", "nvenc">>,
        name |-> "NVIDIA NVENC"],
       [h264 |-> <<"h264", "amf">>, h265 |-> <<"hevc", "amf">>,
        name |-> "AMD AMF"],
       [h264 |-> <<"h264", "qsv">>, h265 |-> <<"hevc", "qsv">>,
        name |-> "Intel QSV"],
       [h264 |-> <<"h264", "vaapi">>, h265 |-> <<"hevc", "vaapi">>,
        name |-> "VAAPI"],
       [h264 |-> <<"h264", "videotoolbox">>, h265 |-> <<"hevc", "videotoolbox">>,
        name |-> "Apple VideoToolbox"],
       [h264 |-> <<"h264", "v4l2m2m">>, h265 |-> <<"hevc", "v4l2m2m">>,
        name |-> "V4L2 M2M"] >>

\* a call of detect_hw_encoder at pc, with its locals: compiled, the loop
\* position k, seen: how the test encode of each candidate ended in this
\* call, ret: what it returned, probed: whether it went past the cache
\* check, late: whether another call had returned before it began
Call(pc) ==
    [pc |-> pc, compiled |-> {}, k |-> 1,
     seen |-> [i \in DOMAIN _HW_CANDIDATES |-> "untested"],
     ret |-> None, probed |-> FALSE, late |-> FALSE]

\* nothing probed yet: the module global is None, the check box is
\* disabled and unchecked, the poll timer runs
ProbeIdle ==
    /\ _hw_probe_cache = None
    /\ thr = [c \in {"startup", "export"} |-> Call("idle")]
    /\ binary = {}
    /\ runs = [i \in DOMAIN _HW_CANDIDATES |-> 0]
    /\ cache_writes = 0
    /\ first_ret = None
    /\ hw_check = [enabled |-> FALSE, checked |-> FALSE]
    /\ gpu = [done |-> FALSE, result |-> None, polling |-> TRUE]
    /\ exports = 0

\* process_video at pc, before it has set its locals
Pv(pc) ==
    [pc |-> pc, osd_data |-> None, srt_data |-> None, font |-> None,
     messages |-> <<>>, hw_info |-> None, encoder |-> <<>>,
     quality_args |-> <<>>, preset_args |-> <<>>, pix_fmt_args |-> <<>>,
     raised |-> "none"]

\* process_video not called
StartIdle ==
    /\ pconfig = None
    /\ pv = Pv("idle")
    /\ spawns = <<>>
    /\ produced = FALSE

\* no lookup made
CacheIdle == look = None

\* no cell placed
PlaceIdle == placed = None

\* no decoder spawned
DecIdle == dec = [state |-> "none"]

RestIdle == ProbeIdle /\ StartIdle /\ CacheIdle /\ PlaceIdle /\ DecIdle

JobIdle == ExportIdle /\ RestIdle

Max(a, b) == IF a >= b THEN a ELSE b
Min(a, b) == IF a <= b THEN a ELSE b

\* ------------------------------------------------------------------------
\* osd_parser.py
\* ------------------------------------------------------------------------

HEADER_SIZE == 40
GRID_COLS == 53
GRID_ROWS == 20
CHARS_PER_FRAME == GRID_COLS * GRID_ROWS
FRAME_SIZE == 4 + CHARS_PER_FRAME * 2

TagBTFL == <<66, 84, 70, 76>>   \* b'BTFL'
TagINAV == <<73, 78, 65, 86>>   \* b'INAV'
TagPITL == <<80, 73, 84, 76>>   \* b'PITL'
TagARDU == <<65, 82, 68, 85>>   \* b'ARDU'

StrBetaflight == <<66, 101, 116, 97, 102, 108, 105, 103, 104, 116>>
StrINAV == <<73, 78, 65, 86>>
StrPitLab == <<80, 105, 116, 76, 97, 98>>
StrArduPilot == <<65, 114, 100, 117, 80, 105, 108, 111, 116>>
StrUnknown == <<85, 110, 107, 110, 111, 119, 110>>

FC_TYPES ==
    (TagBTFL :> StrBetaflight) @@ (TagINAV :> StrINAV)
    @@ (TagPITL :> StrPitLab) @@ (TagARDU :> StrArduPilot)

FcTypeValues == {FC_TYPES[k] : k \in DOMAIN FC_TYPES}

\* --- the file as the recorder writes it (module docstring, FORMAT) ---------
\* A file is kept as its length, the four tag bytes and the records written
\* after the header, the last of which may be cut short by the length; its
\* bytes are read through RawByte.

ScreenBlank == "blank"
ScreenStats == "stats"
ScreenGlyphs == "glyphs"

TxtTotalArm == <<84, 79, 84, 65, 76, 32, 65, 82, 77, 58, 32, 48, 49, 58, 50, 51>>     \* "TOTAL ARM: 01:23"
TxtMinBattery == <<77, 73, 78, 32, 66, 65, 84, 84, 69, 82, 89, 58, 32, 51, 46, 53, 50>> \* "MIN BATTERY: 3.52"
TxtMinRssi == <<77, 73, 78, 32, 82, 83, 83, 73, 58, 32, 52, 53, 37>>                   \* "MIN RSSI: 45%"

\* The text of one row of the post-flight stats screen, <<>> for an empty row.
StatsRow(r) ==
    CASE r = 3 -> TxtTotalArm
      [] r = 5 -> TxtMinBattery
      [] r = 6 -> TxtMinRssi
      [] OTHER -> <<>>

\* The MSP char code of cell i (row-major) of a recorded screen.
ScreenCode(screen, i) ==
    LET r == i \div GRID_COLS
        c == i % GRID_COLS
    IN  CASE screen = ScreenStats ->
                 IF c >= 2 /\ c - 2 < Len(StatsRow(r)) THEN StatsRow(r)[c - 1] ELSE 0
          [] screen = ScreenGlyphs ->
                 IF i = 0 THEN 65 ELSE IF i = GRID_COLS + 1 THEN 300
                 ELSE IF i = CHARS_PER_FRAME - 1 THEN 1023 ELSE 0
          [] OTHER -> 0

Pow256(k) == CASE k = 0 -> 1 [] k = 1 -> 256 [] k = 2 -> 65536 [] OTHER -> 16777216

\* Byte o (from 0) of the file: header tag, null padding, then the records,
\* each a little-endian u32 timestamp and 1060 little-endian u16 codes.
RawByte(f, o) ==
    IF o < 4 THEN f.tag[o + 1]
    ELSE IF o < HEADER_SIZE THEN 0
    ELSE LET k == (o - HEADER_SIZE) \div FRAME_SIZE
             p == (o - HEADER_SIZE) % FRAME_SIZE
             rec == f.recs[k + 1]
         IN  IF p < 4 THEN (rec.ts \div Pow256(p)) % 256
             ELSE (ScreenCode(rec.screen, (p - 4) \div 2) \div Pow256((p - 4) % 2)) % 256

\* --- struct.unpack_from ----------------------------------------------------
\* unpack_from raises struct.error when the buffer ends before the value does.
UnpackFits(f, off, size) == off >= 0 /\ off + size <= f.len

\* '<I': four bytes, least significant first.
UnpackU32(f, off) ==
    RawByte(f, off) + 256 * RawByte(f, off + 1)
    + 65536 * RawByte(f, off + 2) + 16777216 * RawByte(f, off + 3)

\* '<H': two bytes, least significant first.
UnpackU16(f, off) == RawByte(f, off) + 256 * RawByte(f, off + 1)

\* f'<{CHARS_PER_FRAME}H': the grid, a flat list indexed from 0.
UnpackGrid(f, off) == [i \in 0 .. CHARS_PER_FRAME - 1 |-> UnpackU16(f, off + 2 * i)]

\* --- str helpers -----------------------------------------------------------

\* w in line
Contains(line, w) ==
    \E i \in 1 .. (Len(line) - Len(w) + 1) : \A j \in 1 .. Len(w) : line[i + j - 1] = w[j]

\* line.find(ch): the first position (from 0) of ch, -1 when absent
Find(line, ch) ==
    IF \E i \in 1 .. Len(line) : line[i] = ch
    THEN (CHOOSE i \in 1 .. Len(line) : line[i] = ch /\ \A j \in 1 .. i - 1 : line[j] # ch) - 1
    ELSE -1

\* s.rstrip(chars) and s.lstrip(chars)
RStrip(s, chars) ==
    LET keep == {i \in 1 .. Len(s) : s[i] \notin chars}
    IN  IF keep = {} THEN <<>> ELSE SubSeq(s, 1, CHOOSE i \in keep : \A j \in keep : j <= i)

LStrip(s, chars) ==
    LET keep == {i \in 1 .. Len(s) : s[i] \notin chars}
    IN  IF keep = {} THEN <<>> ELSE SubSeq(s, CHOOSE i \in keep : \A j \in keep : j >= i, Len(s))

\* s.strip(): of the characters a row can hold only the space is whitespace
Strip(s) == LStrip(RStrip(s, {32}), {32})

\* s.split()[0]; <<>> stands for the IndexError of an empty split
FirstToken(s) ==
    LET t == LStrip(s, {32})
        sp == Find(t, 32)
    IN  IF sp < 0 THEN t ELSE SubSeq(t, 1, sp)

\* s.replace(ch, '')
Remove(s, ch) == SelectSeq(s, LAMBDA c : c # ch)

IsDigit(c) == 48 <= c /\ c <= 57

\* float(tok) succeeds. The rows of the model hold digits, '.', ':', '%' and
\* upper-case words, for which float accepts exactly the plain decimals.
FloatParses(tok) ==
    /\ \E i \in 1 .. Len(tok) : IsDigit(tok[i])
    /\ \A i \in 1 .. Len(tok) : IsDigit(tok[i]) \/ tok[i] = 46
    /\ Cardinality({i \in 1 .. Len(tok) : tok[i] = 46}) <= 1

RECURSIVE DigitsValue(_)
DigitsValue(ds) ==
    IF ds = <<>> THEN 0 ELSE 10 * DigitsValue(SubSeq(ds, 1, Len(ds) - 1)) + (ds[Len(ds)] - 48)

RECURSIVE Pow10(_)
Pow10(k) == IF k = 0 THEN 1 ELSE 10 * Pow10(k - 1)

\* float(tok) of a plain decimal, kept exactly as num / 10^exp
FloatOf(tok) ==
    LET dot == Find(tok, 46)
    IN  IF dot < 0 THEN [num |-> DigitsValue(tok), exp |-> 0]
        ELSE [num |-> DigitsValue(Remove(tok, 46)), exp |-> Len(tok) - dot - 1]

\* int(x): truncation
IntOf(x) == x.num \div Pow10(x.exp)

\* round(x, 2): half to even on the kept decimal
Round2(x) ==
    IF x.exp <= 2 THEN x
    ELSE LET d == Pow10(x.exp - 2)
             q == x.num \div d
             r == x.num % d
         IN  [num |-> IF 2 * r > d \/ (2 * r = d /\ q % 2 = 1) THEN q + 1 ELSE q, exp |-> 2]

\* --- FlightStats, OsdFrame, OsdFile -----------------------------------------

KwTOTAL == <<84, 79, 84, 65, 76>>
KwARM == <<65, 82, 77>>
KwFLY == <<70, 76, 89>>
KwTIME == <<84, 73, 77, 69>>
KwFLIGHT == <<70, 76, 73, 71, 72, 84>>
KwMIN == <<77, 73, 78>>
KwBATTERY == <<66, 65, 84, 84, 69, 82, 89>>
KwRSSI == <<82, 83, 83, 73>>
KwCURRENT == <<67, 85, 82, 82, 69, 78, 84>>
KwUSED == <<85, 83, 69, 68>>
KwMAH == <<77, 65, 72>>
KwCAPACITY == <<67, 65, 80, 65, 67, 73, 84, 89>>
KwEFF == <<69, 70, 70>>
KwBLACKBOX == <<66, 76, 65, 67, 75, 66, 79, 88>>

\* FlightStats(): every field None
FlightStats ==
    [fc_type |-> None, total_arm_time |-> None, min_battery_v |-> None,
     min_rssi_pct |-> None, max_current_a |-> None, used_mah |-> None,
     efficiency |-> None, blackbox_pct |-> None]

\* OsdFrame.non_empty(): [(row, col, char_code), ...] of the non-zero cells
non_empty(frame) ==
    {<<i \div GRID_COLS, i % GRID_COLS, frame.grid[i]>> :
        i \in {j \in 0 .. CHARS_PER_FRAME - 1 : frame.grid[j] # 0}}

\* _clean: drop what is not printable ASCII, then strip
Clean(s) == Strip(SelectSeq(s, LAMBDA c : (32 <= c /\ c <= 126) \/ c = 46))

\* row_text(r) of _extract_stats
row_text(frame, r) ==
    [c \in 1 .. GRID_COLS |->
        LET v == frame.grid[r * GRID_COLS + c - 1]
        IN  IF 32 <= v /\ v < 127 THEN v ELSE 32]

\* after_colon(line) of _extract_stats
after_colon(line) ==
    LET idx == Find(line, 58)
    IN  IF idx >= 0 THEN Strip(SubSeq(line, idx + 2, Len(line))) ELSE <<>>

\* `x or None`
OrNone(s) == IF s = <<>> THEN None ELSE Some(s)

\* One pass of the loop body of _extract_stats over a row's text.
StatsOfLine(s, line) ==
    LET val == Clean(after_colon(line))
        tok == FirstToken(val)
    IN  IF \/ Contains(line, KwTOTAL) /\ Contains(line, KwARM)
           \/ Contains(line, KwFLY) /\ Contains(line, KwTIME)
           \/ Contains(line, KwFLIGHT) /\ Contains(line, KwTIME)
        THEN [s EXCEPT !.total_arm_time = OrNone(val)]
        ELSE IF Contains(line, KwMIN) /\ Contains(line, KwBATTERY)
        THEN IF FloatParses(tok)
             THEN [s EXCEPT !.min_battery_v = Some(FloatOf(tok))] ELSE s
        ELSE IF Contains(line, KwMIN) /\ Contains(line, KwRSSI)
        THEN LET t == FirstToken(Remove(val, 37))
             IN  IF FloatParses(t)
                 THEN [s EXCEPT !.min_rssi_pct = Some(IntOf(FloatOf(t)))] ELSE s
        ELSE IF Contains(line, KwCURRENT) /\ ~Contains(line, KwMIN)
        THEN LET t == RStrip(tok, {97, 65})
             IN  IF FloatParses(t)
                 THEN [s EXCEPT !.max_current_a = Some(Round2(FloatOf(t)))] ELSE s
        ELSE IF \/ Contains(line, KwUSED) /\ Contains(line, KwMAH)
                \/ Contains(line, KwUSED) /\ Contains(line, KwCAPACITY)
        THEN IF FloatParses(tok)
             THEN [s EXCEPT !.used_mah = Some(IntOf(FloatOf(tok)))] ELSE s
        ELSE IF Contains(line, KwEFF)
        THEN [s EXCEPT !.efficiency = OrNone(val)]
        ELSE IF Contains(line, KwBLACKBOX)
        THEN [s EXCEPT !.blackbox_pct = OrNone(val)]
        ELSE s

RECURSIVE StatsRows(_, _, _)
StatsRows(s, frame, r) ==
    IF r = GRID_ROWS THEN s ELSE StatsRows(StatsOfLine(s, row_text(frame, r)), frame, r + 1)

\* _extract_stats(frame): a fresh FlightStats filled from the rows in order
extract_stats(frame) == StatsRows(FlightStats, frame, 0)

\* OsdFile(): no frames yet
OsdFile == [stats |-> FlightStats, frames |-> <<>>, timestamps |-> <<>>]

frame_count(o) == Len(o.frames)

duration_ms(o) == IF o.timestamps # <<>> THEN o.timestamps[Len(o.timestamps)] ELSE 0

\* bisect.bisect_right(a, x): the search as the library runs it (lo, hi from 0)
RECURSIVE BisectLoop(_, _, _, _)
BisectLoop(a, x, lo, hi) ==
    IF lo < hi
    THEN LET mid == (lo + hi) \div 2
         IN  IF x < a[mid + 1] THEN BisectLoop(a, x, lo, mid)
             ELSE BisectLoop(a, x, mid + 1, hi)
    ELSE lo

bisect_right(a, x) == BisectLoop(a, x, 0, Len(a))

\* frame_at_time searching for the first timestamp >= time_ms instead of the
\* first one > time_ms (bisect_left for bisect_right)
frame_at_time_left(o, time_ms) ==
    IF o.timestamps = <<>> THEN None
    ELSE LET earlier == {k \in 1 .. Len(o.timestamps) : o.timestamps[k] < time_ms}
         IN  Some(Max(0, Min(Cardinality(earlier) - 1, Len(o.frames) - 1)))

\* frame_at_time without the "- 1": the insertion point itself
frame_at_time_next(o, time_ms) ==
    IF o.timestamps = <<>> THEN None
    ELSE Some(Max(0, Min(bisect_right(o.timestamps, time_ms), Len(o.frames) - 1)))

\* OsdFile.frame_at_time: the position in frames of the frame returned
frame_at_time(o, time_ms) ==
    IF o.timestamps = <<>> THEN None
    ELSE LET idx == bisect_right(o.timestamps, time_ms) - 1
         IN  Some(Max(0, Min(idx, Len(o.frames) - 1)))

\* --- parse_osd ---------------------------------------------------------------

\* fc_tag.decode('ascii', errors='replace'): U+FFFD for a byte that is not ASCII
DecodeAscii(bs) == [i \in 1 .. Len(bs) |-> IF bs[i] < 128 THEN bs[i] ELSE 65533]

\* the fc_type parse_osd derives from the four tag bytes
fc_type_of(fc_tag) ==
    LET verbatim == RStrip(DecodeAscii(fc_tag), {0})
        looked == IF fc_tag \in DOMAIN FC_TYPES THEN FC_TYPES[fc_tag] ELSE verbatim
    IN  IF looked = <<>> \/ looked \notin FcTypeValues
        THEN (IF verbatim # <<>> THEN verbatim ELSE StrUnknown)
        ELSE looked

\* the header test with <= for <
too_small_incl(f) == f.len <= HEADER_SIZE

\* if len(raw) < HEADER_SIZE: raise ValueError("File too small ...")
too_small(f) == f.len < HEADER_SIZE

\* the frame count rounded up instead of down
n_frames_ceil(f) == (f.len - HEADER_SIZE + FRAME_SIZE - 1) \div FRAME_SIZE

\* n_frames = (len(raw) - HEADER_SIZE) // FRAME_SIZE
n_frames_of(f) == (f.len - HEADER_SIZE) \div FRAME_SIZE

\* off = HEADER_SIZE + i * FRAME_SIZE
frame_offset(i) == HEADER_SIZE + i * FRAME_SIZE

\* the OsdFrame the loop body appends for i
read_frame(f, i) ==
    LET off == frame_offset(i)
    IN  [index |-> i, time_ms |-> UnpackU32(f, off), grid |-> UnpackGrid(f, off + 4)]

\* both unpack_from calls of the loop body find their bytes
frame_fits(f, i) ==
    /\ UnpackFits(f, frame_offset(i), 4)
    /\ UnpackFits(f, frame_offset(i) + 4, 2 * CHARS_PER_FRAME)

\* the two statements in the other order: the fresh FlightStats replaces fc_type
stats_of_swapped(frames, fc_type) == extract_stats(frames[1])

\* osd.stats = _extract_stats(osd.frames[0]); osd.stats.fc_type = fc_type
stats_of(frames, fc_type) == [extract_stats(frames[1]) EXCEPT !.fc_type = Some(fc_type)]

\* parse_osd(path): what it raises or returns
parse_osd(f) ==
    IF too_small(f) THEN [outcome |-> "too_small", osd |-> None]
    ELSE LET fc_type == fc_type_of(SubSeq(f.tag, 1, 4))
             n_frames == n_frames_of(f)
         IN  IF n_frames = 0 THEN [outcome |-> "no_frames", osd |-> None]
             ELSE IF \E i \in 0 .. n_frames - 1 : ~frame_fits(f, i)
             THEN [outcome |-> "struct_error", osd |-> None]
             ELSE LET frames == [k \in 1 .. n_frames |-> read_frame(f, k - 1)]
                  IN  [outcome |-> "ok",
                       osd |-> Some([stats |-> stats_of(frames, fc_type),
                                     frames |-> frames,
                                     timestamps |-> [k \in 1 .. n_frames |-> frames[k].time_ms]])]

\* ------------------------------------------------------------------------
\* numpy float32 arithmetic (osd_renderer.py: .astype(np.float32), /, *, +, -)
\* ------------------------------------------------------------------------
\* A float32 that is not negative is zero or m * 2^e with a 24-bit mantissa,
\* 2^23 <= m < 2^24; every operation rounds to nearest, ties to even, as the
\* hardware does.  Integers here are 32 bits wide, so products are taken in
\* 12-bit halves.

F32Zero == [m |-> 0, e |-> 0]

RECURSIVE F32Norm(_, _)
\* n * 2^e for an integer 0 <= n < 2^24, normalised
F32Norm(n, e) ==
    IF n = 0 THEN F32Zero
    ELSE IF n < 2^23 THEN F32Norm(2 * n, e - 1)
    ELSE [m |-> n, e |-> e]

\* arr.astype(np.float32) of a uint8 (exact)
F32FromInt(n) == F32Norm(n, 0)

F32One == F32FromInt(1)

\* the mantissa q at exponent e, one unit up when the dropped part says so
F32Rounded(q, e, up) ==
    IF ~up THEN [m |-> q, e |-> e]
    ELSE IF q + 1 = 2^24 THEN [m |-> 2^23, e |-> e + 1]
    ELSE [m |-> q + 1, e |-> e]

\* nearest-even: part dropped against half a unit, both scaled alike
F32RoundsUp(q, dropped, half) == dropped > half \/ (dropped = half /\ q % 2 = 1)

\* x * y
F32Mul(x, y) ==
    IF x.m = 0 \/ y.m = 0 THEN F32Zero
    ELSE LET a1 == x.m \div 4096
             a0 == x.m % 4096
             b1 == y.m \div 4096
             b0 == y.m % 4096
             mid == a1 * b0 + a0 * b1
             t == a0 * b0 + (mid % 4096) * 4096
             lo == t % (2^24)
             hi == a1 * b1 + mid \div 4096 + t \div (2^24)
         IN  IF hi >= 2^23
             THEN F32Rounded(hi, x.e + y.e + 24, F32RoundsUp(hi, lo, 2^23))
             ELSE LET q == 2 * hi + lo \div (2^23)
                  IN  F32Rounded(q, x.e + y.e + 23, F32RoundsUp(q, lo % (2^23), 2^22))

RECURSIVE F32DivBits(_, _, _, _)
\* n more quotient bits of rem / d for rem < d, by long division seven bits
\* at a time: <<quotient, remainder>>
F32DivBits(rem, d, n, acc) ==
    IF n = 0 THEN <<acc, rem>>
    ELSE LET k == Min(n, 7)
             t == rem * 2^k
         IN  F32DivBits(t % d, d, n - k, acc * 2^k + t \div d)

\* x / y, y not zero
F32Div(x, y) ==
    IF x.m = 0 THEN F32Zero
    ELSE LET qr == IF x.m >= y.m THEN F32DivBits(x.m - y.m, y.m, 23, 1)
                   ELSE F32DivBits(x.m, y.m, 24, 0)
             e == IF x.m >= y.m THEN x.e - y.e - 23 ELSE x.e - y.e - 24
         IN  F32Rounded(qr[1], e, F32RoundsUp(qr[1], 2 * qr[2], y.m))

\* n shifted right by d places, what falls off kept as a sticky last bit
F32ShiftSticky(n, d) ==
    IF d > 27 THEN 1
    ELSE LET q == n \div (2^d)
         IN  IF n % (2^d) # 0 /\ q % 2 = 0 THEN q + 1 ELSE q

RECURSIVE F32Pack(_, _)
\* s * 2^e with three extra low bits, 0 < s < 2^28, normalised and rounded
F32Pack(s, e) ==
    IF s >= 2^27 THEN F32Pack(F32ShiftSticky(s, 1), e + 1)
    ELSE IF s < 2^26 THEN F32Pack(2 * s, e - 1)
    ELSE F32Rounded(s \div 8, e + 3, F32RoundsUp(s \div 8, s % 8, 4))

\* x + y
F32Add(x, y) ==
    IF x.m = 0 THEN y
    ELSE IF y.m = 0 THEN x
    ELSE LET big == IF x.e >= y.e THEN x ELSE y
             small == IF x.e >= y.e THEN y ELSE x
         IN  F32Pack(8 * big.m + F32ShiftSticky(8 * small.m, big.e - small.e), big.e - 3)

\* x - y for x >= y
F32Sub(x, y) ==
    IF y.m = 0 THEN x
    ELSE LET diff == 8 * x.m - F32ShiftSticky(8 * y.m, x.e - y.e)
         IN  IF diff = 0 THEN F32Zero ELSE F32Pack(diff, x.e - 3)

\* .astype(np.uint8) of a float32 in [0, 256): the integer part
F32Trunc(x) ==
    IF x.m = 0 \/ x.e < -24 THEN 0
    ELSE IF x.e >= 0 THEN (x.m * 2^(x.e)) % 256
    ELSE (x.m \div 2^(0 - x.e)) % 256

\* ------------------------------------------------------------------------
\* font_loader.py
\* ------------------------------------------------------------------------

NUM_CHARS == 256

\* _BASE_W of _detect_layout
BASE_W == (36 :> 24) @@ (54 :> 36) @@ (72 :> 48) @@ (108 :> 72)

\* for bw in (24, 36, 48, 72): the fallback widths in the order tried
FallbackWidths == <<24, 36, 48, 72>>

\* the first fallback width that divides the sheet width, None when none does
FirstFallback(width) ==
    LET fits == {k \in 1 .. Len(FallbackWidths) : width % FallbackWidths[k] = 0}
    IN  IF fits = {} THEN None
        ELSE Some(FallbackWidths[CHOOSE k \in fits : \A j \in fits : k <= j])

\* _detect_layout(img): <<tile_w, tile_h, n_cols>>
detect_layout(img) ==
    LET tile_h == img.height \div NUM_CHARS
        base_w == IF tile_h \in DOMAIN BASE_W THEN Some(BASE_W[tile_h]) ELSE None
    IN  IF base_w # None /\ TheOne(base_w) # 0 /\ img.width % TheOne(base_w) = 0
        THEN <<TheOne(base_w), tile_h, img.width \div TheOne(base_w)>>
        ELSE LET bw == FirstFallback(img.width)
             IN  IF bw # None THEN <<TheOne(bw), tile_h, img.width \div TheOne(bw)>>
                 ELSE <<img.width, tile_h, 1>>

\* OsdFont.__init__
OsdFont(image, tile_w, tile_h, n_cols, name) ==
    [image |-> image, tile_w |-> tile_w, tile_h |-> tile_h, n_cols |-> n_cols, name |-> name]

\* load_font_from_file(path): the font named after the folder of the file
load_font_from_file(img, folder) ==
    LET l == detect_layout(img)
    IN  OsdFont(img, l[1], l[2], l[3], folder)

\* the column group get_char reads: col = code // 256, 0 when col >= n_cols
glyph_col(f, code) ==
    LET col == code \div NUM_CHARS IN IF col >= f.n_cols THEN 0 ELSE col

\* Image.crop(box) raises ValueError when the box is turned inside out
crop_raises(left, upper, right, lower) == right < left \/ lower < upper

\* Image.crop((left, upper, right, lower)): the region, right - left wide
crop(left, upper, right, lower) ==
    [x |-> left, y |-> upper, w |-> right - left, h |-> lower - upper]

\* get_char without the fall back to the first column
get_char_nofallback(f, code) ==
    LET x == (code \div NUM_CHARS) * f.tile_w
        y == (code % NUM_CHARS) * f.tile_h
    IN  IF y + f.tile_h > f.image.height THEN None
        ELSE IF x + f.tile_w > f.image.width THEN None
        ELSE Some(crop(x, y, x + f.tile_w, y + f.tile_h))

\* get_char with >= for > in the two bounds tests
get_char_strict(f, code) ==
    LET x == glyph_col(f, code) * f.tile_w
        y == (code % NUM_CHARS) * f.tile_h
    IN  IF y + f.tile_h >= f.image.height THEN None
        ELSE IF x + f.tile_w >= f.image.width THEN None
        ELSE Some(crop(x, y, x + f.tile_w, y + f.tile_h))

\* OsdFont.get_char(code): None, or the rectangle of the sheet it crops
get_char(f, code) ==
    LET col == glyph_col(f, code)
        row == code % NUM_CHARS
        x == col * f.tile_w
        y == row * f.tile_h
    IN  IF y + f.tile_h > f.image.height THEN None
        ELSE IF x + f.tile_w > f.image.width THEN None
        ELSE Some(crop(x, y, x + f.tile_w, y + f.tile_h))

\* whether get_char(code) raises: only its crop can
get_char_raises(f, code) ==
    LET x == glyph_col(f, code) * f.tile_w
        y == (code % NUM_CHARS) * f.tile_h
    IN  /\ y + f.tile_h <= f.image.height
        /\ x + f.tile_w <= f.image.width
        /\ crop_raises(x, y, x + f.tile_w, y + f.tile_h)

\* --- the files and queries of the model ----------------------------------------

MaxFrames == 3

TsValues == {0, 500, 1000}
QueryTimes == {-5, 0, 250, 500, 750, 1000, 5000}

TagABCD == <<65, 66, 67, 68>>       \* b'ABCD', no known firmware
TagAB == <<65, 66, 0, 0>>           \* b'AB\x00\x00', null-terminated
TagNul == <<0, 0, 0, 0>>            \* an empty, null-padded tag
TagHigh == <<200, 66, 67, 68>>      \* a byte that is not ASCII
Tags == {TagBTFL, TagINAV, TagABCD, TagAB, TagNul, TagHigh}

RECURSIVE SeqsUpTo(_, _)
SeqsUpTo(S, n) ==
    IF n = 0 THEN {<<>>}
    ELSE LET shorter == SeqsUpTo(S, n - 1)
         IN  shorter \cup {Append(q, x) : q \in shorter, x \in S}

\* what follows the last complete record: no byte, one byte, all but one
TrailingSizes == {0, 1, FRAME_SIZE - 1}

\* Logs for lookup: every timestamp list, sorted or not, blank screens.
LookupFiles ==
    {[len |-> HEADER_SIZE + Len(ts) * FRAME_SIZE, tag |-> TagBTFL,
      recs |-> [k \in 1 .. Len(ts) |-> [ts |-> ts[k], screen |-> ScreenBlank]]] :
        ts \in SeqsUpTo(TsValues, MaxFrames) \ {<<>>}}

\* Files for parsing: k complete records at 0, 500, ... and r bytes of one more.
ParseFiles ==
    {[len |-> HEADER_SIZE + k * FRAME_SIZE + r, tag |-> tg,
      recs |-> [i \in 1 .. k + 1 |->
                  [ts |-> 500 * (i - 1), screen |-> IF i = 1 THEN sc ELSE ScreenGlyphs]]] :
        tg \in Tags, k \in 0 .. MaxFrames, r \in TrailingSizes,
        sc \in {ScreenBlank, ScreenStats}}

\* Files that end inside the header.
ShortFiles ==
    {[len |-> n, tag |-> TagBTFL, recs |-> <<>>] : n \in {0, 3, HEADER_SIZE - 1}}

Files == LookupFiles \cup ParseFiles \cup ShortFiles

\* --- the operations ---------------------------------------------------------------

\* no font loaded, no glyph asked for
FontIdle ==
    /\ font = None
    /\ gc_code = None
    /\ gc_ret = None
    /\ gc_raised = FALSE

\* no file read
OsdIdle ==
    /\ raw = None
    /\ outcome = "none"
    /\ osd = None
    /\ q_time = None
    /\ q_ret = None

InitOsd ==
    /\ raw \in Files
    /\ outcome = "none"
    /\ osd = None
    /\ q_time = None
    /\ q_ret = None
    /\ FontIdle
    /\ RenderIdle
    /\ JobIdle

\* parse_osd(path)
ParseOsd ==
    /\ outcome = "none"
    /\ LET r == parse_osd(raw)
       IN  outcome' = r.outcome /\ osd' = r.osd
    /\ UNCHANGED <<raw, q_time, q_ret>>
    /\ UNCHANGED fontVars
    /\ UNCHANGED renderVars
    /\ UNCHANGED jobVars

\* osd.frame_at_time(t)
FrameAtTime(t) ==
    /\ outcome = "ok"
    /\ q_time' = Some(t)
    /\ q_ret' = frame_at_time(TheOne(osd), t)
    /\ UNCHANGED <<raw, outcome, osd>>
    /\ UNCHANGED fontVars
    /\ UNCHANGED renderVars
    /\ UNCHANGED jobVars

NextOsd ==
    \/ ParseOsd
    \/ \E t \in QueryTimes : FrameAtTime(t)

SpecOsd == InitOsd /\ [][NextOsd]_vars

\* --- the font sheets and char codes of the model ---------------------------------

\* The sheets of the format table (width x tile height, 256 tiles tall), a
\* width no base width divides, and heights that are no multiple of 256.
SheetWidths == {24, 36, 48, 72, 96, 144, 100}
SheetHeights == {36 * 256, 54 * 256, 72 * 256, 108 * 256, 54 * 256 + 10, 255}
Sheets == {[width |-> w, height |-> h, pixels |-> "sheet"] : w \in SheetWidths, h \in SheetHeights}

\* Fonts built by calling OsdFont directly, whatever the geometry.
DirectImages == {[width |-> 48, height |-> 512, pixels |-> "sheet"],
                 [width |-> 0, height |-> 0, pixels |-> "sheet"]}
DirectTiles == {0, 2, 24}
DirectCols == {0, 1, 4}

\* 16-bit char codes: the ends of each column group and of the range
CharCodes == {0, 1, 255, 256, 300, 511, 767, 768, 1023, 1024, 1279, 65535}

InitFont ==
    /\ FontIdle
    /\ OsdIdle
    /\ RenderIdle
    /\ JobIdle

\* load_font_from_file(path) on a sheet
LoadFontFromFile(img) ==
    /\ font = None
    /\ font' = Some(load_font_from_file(img, "folder"))
    /\ UNCHANGED <<gc_code, gc_ret, gc_raised>>
    /\ UNCHANGED osdVars
    /\ UNCHANGED renderVars
    /\ UNCHANGED jobVars

\* OsdFont(image, tile_w, tile_h, n_cols)
NewOsdFont(img, tw, th, nc) ==
    /\ font = None
    /\ font' = Some(OsdFont(img, tw, th, nc, ""))
    /\ UNCHANGED <<gc_code, gc_ret, gc_raised>>
    /\ UNCHANGED osdVars
    /\ UNCHANGED renderVars
    /\ UNCHANGED jobVars

\* font.get_char(code)
GetChar(code) ==
    /\ font # None
    /\ gc_code' = Some(code)
    /\ gc_ret' = get_char(TheOne(font), code)
    /\ gc_raised' = get_char_raises(TheOne(font), code)
    /\ UNCHANGED font
    /\ UNCHANGED osdVars
    /\ UNCHANGED renderVars
    /\ UNCHANGED jobVars

NextFont ==
    \/ \E img \in Sheets : LoadFontFromFile(img)
    \/ \E img \in DirectImages : \E tw \in DirectTiles : \E th \in DirectTiles :
           \E nc \in DirectCols : NewOsdFont(img, tw, th, nc)
    \/ \E code \in CharCodes : GetChar(code)

SpecFont == InitFont /\ [][NextFont]_vars

\* ------------------------------------------------------------------------
\* osd_renderer.py
\* ------------------------------------------------------------------------
\* A pixel is <<r, g, b, a>> of uint8; an image is [w, h, px] with px a
\* function of <<x, y>>.  scale and srt_opacity are floats that the callers
\* compute as slider / 100.0 (main.py 1974-1981); the model holds the slider
\* value, in hundredths, and computes every quotient exactly.  For the sizes
\* and hundredths used here int(...) of the float64 value is the same number.

Transparent == <<0, 0, 0, 0>>

PixelsOf(w, h) == (0 .. w - 1) \X (0 .. h - 1)

OsdRenderConfig(offset_x, offset_y, scale, show_srt_bar, srt_text, srt_opacity) ==
    [offset_x |-> offset_x, offset_y |-> offset_y, scale |-> scale,
     show_srt_bar |-> show_srt_bar, srt_text |-> srt_text, srt_opacity |-> srt_opacity]

\* int(n / d) for d > 0: toward zero
IntOfQuotient(n, d) == IF n >= 0 THEN n \div d ELSE 0 - ((0 - n) \div d)

\* _auto_scale: eff as the fraction num / den, then x_off and y_off
auto_scale(video_w, video_h, tile_w, tile_h, user_scale) ==
    LET num == video_h * user_scale
        den == GRID_ROWS * tile_h * 100
    IN  [num |-> num, den |-> den,
         x_off |-> IntOfQuotient(video_w * den - GRID_COLS * tile_w * num, 2 * den),
         y_off |-> IntOfQuotient(video_h * den - GRID_ROWS * tile_h * num, 2 * den)]

\* max(1, int(tile * eff))
tile_size(tile, s) == Max(1, IntOfQuotient(tile * s.num, s.den))

\* the pixel of a font sheet at <<x, y>>: each tile row of the model's sheets
\* is one flat colour
SheetPixel(image, x, y, tile_h) ==
    LET row == y \div tile_h
    IN  CASE row = 65 -> <<13, 13, 13, 173>>       \* translucent grey
          [] row = 66 -> <<255, 255, 255, 255>>    \* opaque white
          [] row = 67 -> <<200, 100, 50, 0>>       \* coloured, alpha 0
          [] row = 44 -> <<25, 25, 25, 189>>
          [] OTHER -> Transparent

\* the pixels of the rectangle get_char cropped from the sheet
glyph_image(f, rect) ==
    [w |-> rect.w, h |-> rect.h,
     px |-> [p \in PixelsOf(rect.w, rect.h) |->
                SheetPixel(f.image, rect.x + p[1], rect.y + p[2], f.tile_h)]]

\* Image.resize((tw, th), LANCZOS): a copy when the size does not change;
\* otherwise an image of the new size (the filter's arithmetic is PIL's, the
\* model samples the nearest source pixel)
resize(img, tw, th) ==
    IF img.w = tw /\ img.h = th THEN img
    ELSE [w |-> tw, h |-> th,
          px |-> [p \in PixelsOf(tw, th) |->
                     img.px[<<(p[1] * img.w) \div tw, (p[2] * img.h) \div th>>]]]

\* the pixels as float32: arr.astype(np.float32)
as_float32(pixel) == [k \in 1 .. 4 |-> F32FromInt(pixel[k])]

\* alpha / 255.0
alpha_of(pixel) == F32Div(F32FromInt(pixel[4]), F32FromInt(255))

\* OsdRenderer._get_glyph(code) on the cache: what it returns, the cache after
get_glyph(r, cache, code) ==
    IF code \in DOMAIN cache THEN [ret |-> Some(cache[code]), glyphs |-> cache]
    ELSE IF r.font = None THEN [ret |-> None, glyphs |-> cache]
    ELSE LET g == get_char(TheOne(r.font), code)
         IN  IF g = None THEN [ret |-> None, glyphs |-> cache]
             ELSE LET g_arr == resize(glyph_image(TheOne(r.font), TheOne(g)), r.tw, r.th)
                      g_alpha == [p \in DOMAIN g_arr.px |-> alpha_of(g_arr.px[p])]
                      entry == [g_arr |-> g_arr, g_alpha |-> g_alpha]
                  IN  [ret |-> Some(entry), glyphs |-> cache @@ (code :> entry)]

\* lines 282-289 and 297-304 for one pixel: the source's float32 channels and
\* alpha over the uint8 destination, written back through astype(np.uint8)
blend(src, src_a, dst) ==
    LET dst_a == alpha_of(dst)
        rest == F32Sub(F32One, src_a)
        out_a == F32Add(src_a, F32Mul(dst_a, rest))
        safe_a == IF out_a.m > 0 THEN out_a ELSE F32One
        out_rgb(k) == F32Div(F32Add(F32Mul(src[k], src_a),
                                    F32Mul(F32Mul(F32FromInt(dst[k]), dst_a), rest)),
                             safe_a)
    IN  <<F32Trunc(out_rgb(1)), F32Trunc(out_rgb(2)), F32Trunc(out_rgb(3)),
          F32Trunc(F32Mul(out_a, F32FromInt(255)))>>

SetMin(S) == CHOOSE v \in S : \A u \in S : v <= u
SetMax(S) == CHOOSE v \in S : \A u \in S : v >= u

\* what ImageDraw paints for a status text: the pixels the rounded rectangle
\* fills and, on top of them, the pixels of the text.  The rasteriser is
\* PIL's; the model draws a small picture per text.  The box of a picture has
\* pixels neither fill nor ink reaches, as the rounded corners leave them.
BarShape(text) ==
    CASE text = "A" -> [fill |-> {<<1, 0>>, <<0, 1>>, <<1, 1>>, <<2, 1>>}, ink |-> {<<1, 1>>}]
      [] text = "ii" -> [fill |-> {<<0, 1>>, <<1, 1>>, <<2, 1>>}, ink |-> {<<0, 1>>, <<2, 1>>}]
      [] OTHER -> [fill |-> {<<0, 1>>, <<1, 1>>}, ink |-> {}]

\* draw.rounded_rectangle(..., fill=(0, 0, 0, opacity_byte)) then
\* draw.text(..., fill=(255, 255, 255, 255)) on the pixels px
draw_bar(px, text, opacity_byte) ==
    [p \in DOMAIN px |->
        IF p \in BarShape(text).ink THEN <<255, 255, 255, 255>>
        ELSE IF p \in BarShape(text).fill THEN <<0, 0, 0, opacity_byte>>
        ELSE px[p]]

\* int(opacity * 255)
opacity_byte_of(srt_opacity) == IntOfQuotient(srt_opacity * 255, 100)

\* len(self._srt_cache) > 512
SRT_CACHE_LIMIT == 512

\* OsdRenderer._get_srt(text) on the cache: what it returns, the cache after.
\* round(opacity, 2) of a number of hundredths is that number.
get_srt(r, cache, text) ==
    LET cache_key == <<text, r.cfg.srt_opacity>>
        hits == {i \in 1 .. Len(cache) : cache[i].key = cache_key}
    IN  IF hits # {} THEN [ret |-> cache[SetMin(hits)].entry, srt_cache |-> cache]
        ELSE LET arr == draw_bar([p \in PixelsOf(r.w, r.h) |-> Transparent], text,
                                 opacity_byte_of(r.cfg.srt_opacity))
                 nz == {p \in DOMAIN arr : arr[p][4] > 0}
             IN  IF nz = {}
                 THEN [ret |-> None,
                       srt_cache |-> Append(cache, [key |-> cache_key, entry |-> None])]
                 ELSE LET y1 == SetMin({p[2] : p \in nz})
                          y2 == SetMax({p[2] : p \in nz}) + 1
                          x1 == SetMin({p[1] : p \in nz})
                          x2 == SetMax({p[1] : p \in nz}) + 1
                          box == (x1 .. x2 - 1) \X (y1 .. y2 - 1)
                          patch == [p \in box |-> as_float32(arr[p])]
                          alpha == [p \in box |-> F32Div(patch[p][4], F32FromInt(255))]
                          entry == Some([y1 |-> y1, y2 |-> y2, x1 |-> x1, x2 |-> x2,
                                         patch |-> patch, alpha |-> alpha])
                          kept == IF Len(cache) > SRT_CACHE_LIMIT THEN Tail(cache) ELSE cache
                      IN  [ret |-> entry,
                           srt_cache |-> Append(kept, [key |-> cache_key, entry |-> entry])]

RECURSIVE in_order(_)
\* the cells of non_empty() as the list it returns: by index in the grid
in_order(cells) ==
    IF cells = {} THEN <<>>
    ELSE LET c == CHOOSE c \in cells :
                      \A d \in cells : c[1] * GRID_COLS + c[2] <= d[1] * GRID_COLS + d[2]
         IN  <<c>> \o in_order(cells \ {c})

\* one pass of the glyph loop of composite (lines 260-289); st holds the
\* frame, the glyph cache and the pixels blended so far
paste_glyph(r, st, cell) ==
    LET got == get_glyph(r, st.glyphs, cell[3])
        seen == [st EXCEPT !.glyphs = got.glyphs]
        px == r.x0 + cell[2] * r.tw
        py == r.y0 + cell[1] * r.th
        py0 == Max(py, 0)
        py1 == Min(py + r.th, r.h)
        px0 == Max(px, 0)
        px1 == Min(px + r.tw, r.w)
        gy0 == py0 - py
        gx0 == px0 - px
        dst == (px0 .. px1 - 1) \X (py0 .. py1 - 1)
        g == TheOne(got.ret)
        at(p) == <<gx0 + (p[1] - px0), gy0 + (p[2] - py0)>>
        blended == [p \in dst |->
                       blend(as_float32(g.g_arr.px[at(p)]), g.g_alpha[at(p)], st.frame[p])]
    IN  IF got.ret = None THEN seen
        ELSE IF px >= r.w \/ py >= r.h \/ px + r.tw <= 0 \/ py + r.th <= 0 THEN seen
        ELSE IF py1 <= py0 \/ px1 <= px0 THEN seen
        ELSE [seen EXCEPT
                 !.frame = blended @@ st.frame,
                 !.pastes = st.pastes \cup
                     {[kind |-> "glyph", src |-> g.g_arr.px[at(p)], dst |-> st.frame[p],
                       out |-> blended[p]] : p \in dst}]

RECURSIVE paste_glyphs(_, _, _)
\* for row, col, code in osd_frame.non_empty(): ...
paste_glyphs(r, st, cells) ==
    IF cells = <<>> THEN st
    ELSE paste_glyphs(r, paste_glyph(r, st, Head(cells)), Tail(cells))

\* the SRT bar of composite (lines 292-304)
paste_srt(r, st, srt_text) ==
    LET got == get_srt(r, st.srt_cache, srt_text)
        seen == [st EXCEPT !.srt_cache = got.srt_cache]
        e == TheOne(got.ret)
        dst == (e.x1 .. e.x2 - 1) \X (e.y1 .. e.y2 - 1)
        blended == [p \in dst |-> blend(e.patch[p], e.alpha[p], st.frame[p])]
    IN  IF got.ret = None THEN seen
        ELSE [seen EXCEPT
                 !.frame = blended @@ st.frame,
                 !.pastes = st.pastes \cup
                     {[kind |-> "srt", src |-> [k \in 1 .. 4 |-> F32Trunc(e.patch[p][k])],
                       dst |-> st.frame[p], out |-> blended[p]] : p \in dst}]

\* composite that keeps what the last call left in the buffer
composite_keep(r, buf, cache, srts, osd_frame, srt_text) ==
    LET start == [frame |-> buf, glyphs |-> cache, srt_cache |-> srts, pastes |-> {}]
        drawn == IF osd_frame # None /\ r.font # None
                 THEN paste_glyphs(r, start, in_order(non_empty(TheOne(osd_frame))))
                 ELSE start
    IN  IF r.cfg.show_srt_bar /\ srt_text # "" THEN paste_srt(r, drawn, srt_text) ELSE drawn

\* OsdRenderer.composite(osd_frame, srt_text): the buffer it returns (the
\* buffer itself, not a copy), the two caches after, the pixels it blended
composite(r, buf, cache, srts, osd_frame, srt_text) ==
    LET start == [frame |-> [p \in DOMAIN buf |-> Transparent],
                  glyphs |-> cache, srt_cache |-> srts, pastes |-> {}]
        drawn == IF osd_frame # None /\ r.font # None
                 THEN paste_glyphs(r, start, in_order(non_empty(TheOne(osd_frame))))
                 ELSE start
    IN  IF r.cfg.show_srt_bar /\ srt_text # "" THEN paste_srt(r, drawn, srt_text) ELSE drawn

\* OsdRenderer.__init__: the geometry; the caches start empty, the buffer zero
OsdRenderer(video_w, video_h, f, cfg) ==
    IF f # None
    THEN LET s == auto_scale(video_w, video_h, TheOne(f).tile_w, TheOne(f).tile_h, cfg.scale)
         IN  [w |-> video_w, h |-> video_h, font |-> f, cfg |-> cfg,
              x0 |-> s.x_off + cfg.offset_x, y0 |-> s.y_off + cfg.offset_y,
              tw |-> tile_size(TheOne(f).tile_w, s), th |-> tile_size(TheOne(f).tile_h, s)]
    ELSE [w |-> video_w, h |-> video_h, font |-> f, cfg |-> cfg,
          x0 |-> 0, y0 |-> 0, tw |-> 0, th |-> 0]

\* frame_img.copy().convert("RGBA"): an RGB image gains an opaque alpha
convert_rgba(img) ==
    IF img.mode = "RGBA" THEN img
    ELSE [img EXCEPT !.mode = "RGBA",
                     !.px = [p \in DOMAIN img.px |->
                                <<img.px[p][1], img.px[p][2], img.px[p][3], 255>>]]

\* PIL's DIV255 and BLEND8, the arithmetic of Image.paste with a mask
Div255(a) == LET t == a + 128 IN ((t \div 256) + t) \div 256
Blend8(mask, in1, in2) == Div255(in1 * (255 - mask) + in2 * mask)

\* out.paste(glyph, (px, py), glyph): every band through the glyph's alpha,
\* on the part of the glyph that lies on the image
pil_paste(out, glyph, px, py) ==
    [out EXCEPT !.px =
        [p \in DOMAIN out.px |->
            LET g == <<p[1] - px, p[2] - py>>
            IN  IF g \in DOMAIN glyph.px
                THEN <<Blend8(glyph.px[g][4], out.px[p][1], glyph.px[g][1]),
                       Blend8(glyph.px[g][4], out.px[p][2], glyph.px[g][2]),
                       Blend8(glyph.px[g][4], out.px[p][3], glyph.px[g][3]),
                       Blend8(glyph.px[g][4], out.px[p][4], glyph.px[g][4])>>
                ELSE out.px[p]]]

\* one pass of the glyph loop of render_osd_frame (lines 81-88)
pil_cell(out, f, geo, cell) ==
    LET glyph == get_char(f, cell[3])
        px == geo.x0 + cell[2] * geo.tw
        py == geo.y0 + cell[1] * geo.th
    IN  IF glyph = None THEN out
        ELSE IF px >= out.w \/ py >= out.h \/ px + geo.tw <= 0 \/ py + geo.th <= 0 THEN out
        ELSE pil_paste(out, resize(glyph_image(f, TheOne(glyph)), geo.tw, geo.th), px, py)

RECURSIVE pil_cells(_, _, _, _)
\* for row, col, code in osd_frame.non_empty(): ...
pil_cells(out, f, geo, cells) ==
    IF cells = <<>> THEN out
    ELSE pil_cells(pil_cell(out, f, geo, Head(cells)), f, geo, Tail(cells))

\* _draw_srt_bar(img, text, opacity): ImageDraw writes its fill into the image
draw_srt_bar(img, text, opacity) ==
    [img EXCEPT !.px = draw_bar(img.px, text, opacity_byte_of(opacity))]

\* render_osd_frame(frame_img, osd_frame, font, cfg)
render_osd_frame(frame_img, osd_frame, f, cfg) ==
    LET out == convert_rgba(frame_img)
        s == auto_scale(out.w, out.h, f.tile_w, f.tile_h, cfg.scale)
        geo == [x0 |-> s.x_off + cfg.offset_x, y0 |-> s.y_off + cfg.offset_y,
                tw |-> tile_size(f.tile_w, s), th |-> tile_size(f.tile_h, s)]
        drawn == IF osd_frame # None
                 THEN pil_cells(out, f, geo, in_order(non_empty(TheOne(osd_frame))))
                 ELSE out
    IN  IF cfg.show_srt_bar /\ cfg.srt_text # ""
        THEN draw_srt_bar(drawn, cfg.srt_text, cfg.srt_opacity)
        ELSE drawn

\* --- the video, fonts, frames and texts of the model ---------------------------

\* a 3 x 2 video: with a sheet of 1 x 1 tiles the grid is 53 x 20 tiles of
\* one pixel, of which columns 1..3 and rows 0..1 are on the frame
VideoSize == [w |-> 3, h |-> 2]

TinySheet == [width |-> 1, height |-> NUM_CHARS, pixels |-> "sheet"]
TinyFont == load_font_from_file(TinySheet, "folder")
RenderFonts == {None, Some(TinyFont)}

GridOf(cells) == [i \in 0 .. CHARS_PER_FRAME - 1 |-> IF i \in DOMAIN cells THEN cells[i] ELSE 0]

\* translucent grey at row 0 col 1, alpha-0 colour at row 0 col 3, opaque
\* white at row 1 col 2; two cells that are never on the frame
FrameP ==
    [index |-> 0, time_ms |-> 0,
     grid |-> GridOf((1 :> 65) @@ (3 :> 67) @@ (GRID_COLS + 2 :> 66)
                     @@ (2 * GRID_COLS + 1 :> 66) @@ (CHARS_PER_FRAME - 1 :> 65))]

\* a code of the second column group (300 = 256 + 44) and an opaque glyph
FrameQ ==
    [index |-> 1, time_ms |-> 500,
     grid |-> GridOf((2 :> 300) @@ (GRID_COLS + 1 :> 66))]

RenderFrames == {None, Some(FrameP), Some(FrameQ)}

SrtTexts == {"", "A", " "}

\* scale 1.0, no offset; the bar on or off, its opacity (hundredths)
RenderConfigs ==
    {OsdRenderConfig(0, 0, 100, show, "", op) : show \in BOOLEAN, op \in {0, 60}}

\* the preview frame main.py hands over, always converted to RGBA
PreviewImage ==
    [mode |-> "RGBA", w |-> VideoSize.w, h |-> VideoSize.h,
     px |-> [p \in PixelsOf(VideoSize.w, VideoSize.h) |->
                <<10 * p[1], 200, 30 * p[2], IF p[1] = 0 THEN 128 ELSE 255>>]]

PreviewFrames == {None, Some(FrameP)}

PreviewConfigs ==
    {OsdRenderConfig(0, 0, 100, TRUE, "", 60), OsdRenderConfig(0, 0, 100, TRUE, "A", 60),
     OsdRenderConfig(0, 0, 100, FALSE, "A", 60)}

\* --- the operations ---------------------------------------------------------------

InitRender ==
    /\ OsdIdle
    /\ FontIdle
    /\ RenderIdle
    /\ JobIdle

\* OsdRenderer(video_w, video_h, font, cfg), once per export job
NewRenderer(f, cfg) ==
    /\ rdr = None
    /\ rdr' = Some(OsdRenderer(VideoSize.w, VideoSize.h, f, cfg))
    /\ glyphs' = <<>>
    /\ srt_cache' = <<>>
    /\ frame_buf' = [p \in PixelsOf(VideoSize.w, VideoSize.h) |-> Transparent]
    /\ c_call' = None
    /\ c_pastes' = {}
    /\ pil_call' = None
    /\ pil_ret' = None
    /\ UNCHANGED osdVars
    /\ UNCHANGED fontVars
    /\ UNCHANGED jobVars

\* renderer.composite(osd_frame, srt_text)
Composite(osd_frame, srt_text) ==
    /\ rdr # None
    /\ \E c \in {composite(TheOne(rdr), frame_buf, glyphs, srt_cache, osd_frame, srt_text)} :
           /\ frame_buf' = c.frame
           /\ glyphs' = c.glyphs
           /\ srt_cache' = c.srt_cache
           /\ c_pastes' = c.pastes
    /\ c_call' = Some([osd_frame |-> osd_frame, srt_text |-> srt_text])
    /\ pil_call' = None
    /\ pil_ret' = None
    /\ UNCHANGED rdr
    /\ UNCHANGED osdVars
    /\ UNCHANGED fontVars
    /\ UNCHANGED jobVars

\* render_osd_frame(img, osd_frame, font, cfg), the preview of main.py
RenderOsdFrame(img, osd_frame, cfg) ==
    /\ pil_call' = Some([frame_img |-> img, osd_frame |-> osd_frame, cfg |-> cfg])
    /\ pil_ret' = Some(render_osd_frame(img, osd_frame, TinyFont, cfg))
    /\ c_call' = None
    /\ c_pastes' = {}
    /\ UNCHANGED <<rdr, glyphs, srt_cache, frame_buf>>
    /\ UNCHANGED osdVars
    /\ UNCHANGED fontVars
    /\ UNCHANGED jobVars

NextRender ==
    \/ \E f \in RenderFonts : \E cfg \in RenderConfigs : NewRenderer(f, cfg)
    \/ \E fr \in RenderFrames : \E text \in SrtTexts : Composite(fr, text)
    \/ \E fr \in PreviewFrames : \E cfg \in PreviewConfigs :
           RenderOsdFrame(PreviewImage, fr, cfg)

SpecRender == InitRender /\ [][NextRender]_vars

\* ---------------------------------------------------------------------
\* Python floats (IEEE-754 binary64), as far as the export pipeline uses
\* them: non-negative values, round-to-nearest-even.  A mantissa has 53
\* bits, so it is kept as a little-endian sequence of 15-bit limbs.
\* ---------------------------------------------------------------------
LIMB == 32768

RECURSIVE Pow2(_)
Pow2(n) == IF n = 0 THEN 1 ELSE 2 * Pow2(n - 1)

RECURSIVE BigOf(_)
BigOf(n) == IF n = 0 THEN <<>> ELSE <<n % LIMB>> \o BigOf(n \div LIMB)

RECURSIVE BigTrim(_)
BigTrim(a) ==
    IF a = <<>> THEN <<>>
    ELSE IF a[Len(a)] = 0 THEN BigTrim(SubSeq(a, 1, Len(a) - 1))
    ELSE a

RECURSIVE BigToInt(_)
BigToInt(a) == IF a = <<>> THEN 0 ELSE Head(a) + LIMB * BigToInt(Tail(a))

RECURSIVE BigAddC(_, _, _)
BigAddC(a, b, carry) ==
    IF a = <<>> /\ b = <<>>
    THEN (IF carry = 0 THEN <<>> ELSE <<carry>>)
    ELSE LET x == IF a = <<>> THEN 0 ELSE Head(a)
             y == IF b = <<>> THEN 0 ELSE Head(b)
             s == x + y + carry
         IN  <<s % LIMB>> \o BigAddC(IF a = <<>> THEN a ELSE Tail(a),
                                     IF b = <<>> THEN b ELSE Tail(b),
                                     s \div LIMB)

BigAdd(a, b) == BigAddC(a, b, 0)

RECURSIVE BigSubB(_, _, _)
BigSubB(a, b, borrow) ==
    IF a = <<>> THEN <<>>
    ELSE LET y == IF b = <<>> THEN 0 ELSE Head(b)
             d == Head(a) - y - borrow
         IN  <<(d + LIMB) % LIMB>>
                 \o BigSubB(Tail(a), IF b = <<>> THEN b ELSE Tail(b),
                            IF d < 0 THEN 1 ELSE 0)

\* a - b for a >= b
BigSub(a, b) == BigTrim(BigSubB(a, b, 0))

RECURSIVE BigLessFrom(_, _, _)
BigLessFrom(a, b, k) ==
    IF k = 0 THEN FALSE
    ELSE IF a[k] # b[k] THEN a[k] < b[k]
    ELSE BigLessFrom(a, b, k - 1)

BigLess(a, b) ==
    IF Len(a) # Len(b) THEN Len(a) < Len(b) ELSE BigLessFrom(a, b, Len(a))

RECURSIVE BigMulSmallC(_, _, _)
BigMulSmallC(a, k, carry) ==
    IF a = <<>>
    THEN (IF carry = 0 THEN <<>> ELSE <<carry>>)
    ELSE LET p == Head(a) * k + carry
         IN  <<p % LIMB>> \o BigMulSmallC(Tail(a), k, p \div LIMB)

\* a * k for 0 <= k < LIMB
BigMulSmall(a, k) == BigTrim(BigMulSmallC(a, k, 0))

RECURSIVE BigMul(_, _)
BigMul(a, b) ==
    IF a = <<>> \/ b = <<>> THEN <<>>
    ELSE LET rest == BigMul(a, Tail(b))
         IN  BigAdd(BigMulSmall(a, Head(b)),
                    IF rest = <<>> THEN <<>> ELSE <<0>> \o rest)

RECURSIVE BitLenInt(_)
BitLenInt(n) == IF n = 0 THEN 0 ELSE 1 + BitLenInt(n \div 2)

BigBitLen(a) ==
    IF a = <<>> THEN 0 ELSE 15 * (Len(a) - 1) + BitLenInt(a[Len(a)])

BigBit(a, k) ==
    IF k \div 15 + 1 > Len(a) THEN 0
    ELSE (a[k \div 15 + 1] \div Pow2(k % 15)) % 2

BigIsOdd(a) == a # <<>> /\ a[1] % 2 = 1

BigShl(a, n) ==
    IF a = <<>> THEN <<>>
    ELSE [i \in 1..(n \div 15) |-> 0] \o BigMulSmall(a, Pow2(n % 15))

\* floor(a / 2^n)
BigShr(a, n) ==
    LET w    == n \div 15
        b    == n % 15
        kept == IF w >= Len(a) THEN <<>> ELSE SubSeq(a, w + 1, Len(a))
    IN  BigTrim([i \in 1..Len(kept) |->
                   (kept[i] \div Pow2(b))
                   + (IF i < Len(kept)
                      THEN (kept[i + 1] % Pow2(b)) * Pow2(15 - b) ELSE 0)])

\* some bit below bit n of a is set
BigLowBits(a, n) ==
    \E k \in 0..(n - 1) : BigBit(a, k) = 1

\* floor(a / k) and a % k for 0 < k < LIMB, from limb i down
RECURSIVE BigDivSmallFrom(_, _, _, _)
BigDivSmallFrom(a, k, i, r) ==
    IF i = 0 THEN [q |-> <<>>, r |-> r]
    ELSE LET cur == r * LIMB + a[i]
         IN  TheOne({[q |-> rest.q \o <<cur \div k>>, r |-> rest.r]
                     : rest \in {BigDivSmallFrom(a, k, i - 1, cur % k)}})

BigDivSmall(a, k) ==
    LET d == BigDivSmallFrom(a, k, Len(a), 0)
    IN  [q |-> BigTrim(d.q), r |-> d.r]

RECURSIVE BigTrailingZeros(_, _)
BigTrailingZeros(a, k) ==
    IF BigBit(a, k) = 1 THEN k ELSE BigTrailingZeros(a, k + 1)

\* A float is m * 2^e with m = 0 or 2^52 <= m < 2^53.
F64Zero == [m |-> <<>>, e |-> 0]

\* the float nearest to big * 2^e (ties to even); sticky says that the
\* exact value lies strictly above big * 2^e and below (big + 1) * 2^e
F64Round(big, e, sticky) ==
    TheOne({
        LET len == BigBitLen(b)
        IN  IF len = 0 THEN F64Zero
            ELSE IF len <= 53 THEN [m |-> BigShl(b, 53 - len), e |-> e - (53 - len)]
            ELSE LET s     == len - 53
                     half  == BigBit(b, s - 1) = 1
                     below == sticky \/ BigLowBits(b, s - 1)
                 IN  TheOne({
                         LET up == half /\ (below \/ BigIsOdd(q))
                         IN  IF up /\ BigBitLen(BigAdd(q, BigOf(1))) = 54
                             THEN [m |-> BigShr(BigAdd(q, BigOf(1)), 1), e |-> e + s + 1]
                             ELSE [m |-> IF up THEN BigAdd(q, BigOf(1)) ELSE q, e |-> e + s]
                         : q \in {BigShr(b, s)}})
        : b \in {big}})

F64FromInt(n) == F64Round(BigOf(n), 0, FALSE)

F64Mul(x, y) ==
    TheOne({F64Round(BigMul(a.m, b.m), a.e + b.e, FALSE) : a \in {x}, b \in {y}})

F64Add(x, y) ==
    TheOne({
        IF a.m = <<>> THEN b
        ELSE IF b.m = <<>> THEN a
        ELSE LET e == IF a.e < b.e THEN a.e ELSE b.e
             IN  F64Round(BigAdd(BigShl(a.m, a.e - e), BigShl(b.m, b.e - e)), e, FALSE)
        : a \in {x}, b \in {y}})

F64Less(x, y) ==
    \E a \in {x}, b \in {y} :
        IF b.m = <<>> THEN FALSE
        ELSE IF a.m = <<>> THEN TRUE
        ELSE IF a.e # b.e THEN a.e < b.e
        ELSE BigLess(a.m, b.m)

\* x - y for x >= y
F64Sub(x, y) ==
    TheOne({
        IF b.m = <<>> THEN a
        ELSE LET e == IF a.e < b.e THEN a.e ELSE b.e
             IN  F64Round(BigSub(BigShl(a.m, a.e - e), BigShl(b.m, b.e - e)), e, FALSE)
        : a \in {x}, b \in {y}})

\* x / y for y a whole number below 2^15 times a power of two (a frame
\* rate such as 10.0, or 1000.0): 55 or more quotient bits, the rest sticky
F64Div(x, y) ==
    TheOne({
        IF a.m = <<>> THEN F64Zero
        ELSE LET tz == BigTrailingZeros(b.m, 0)
             IN  TheOne({F64Round(d.q, a.e - 17 - tz - b.e, d.r # 0)
                         : d \in {BigDivSmall(BigShl(a.m, 17), BigToInt(BigShr(b.m, tz)))}})
        : a \in {x}, b \in {y}})

\* int(x): the whole part
F64Trunc(x) ==
    TheOne({
        IF a.m = <<>> THEN 0
        ELSE IF a.e >= 0 THEN BigToInt(BigShl(a.m, a.e))
        ELSE BigToInt(BigShr(a.m, 0 - a.e))
        : a \in {x}})

\* the float a decimal literal n/d denotes
F64Of(n, d) == F64Div(F64FromInt(n), F64FromInt(d))

\* ------------------------------------------------------------------------
\* video_processor.py: _overlay_pipeline, _drain; main.py: ProcessWorker
\* ------------------------------------------------------------------------

\* A byte string of diagnostics is a sequence of pieces: bytes lo .. hi - 1
\* of the chunk the encoder wrote as its seq-th; gpu says that the chunk
\* holds one of the hw_phrases.
Piece(c) == [seq |-> c.seq, lo |-> 0, hi |-> c.size, gpu |-> c.gpu]

RECURSIVE Bytes(_)
Bytes(str) == IF str = <<>> THEN 0 ELSE (Head(str).hi - Head(str).lo) + Bytes(Tail(str))

\* str[-n:]
RECURSIVE Suffix(_, _)
Suffix(str, n) ==
    IF str = <<>> \/ n <= 0 THEN <<>>
    ELSE LET last == str[Len(str)]
             size == last.hi - last.lo
         IN  IF size >= n THEN <<[last EXCEPT !.lo = last.hi - n]>>
             ELSE Suffix(SubSeq(str, 1, Len(str) - 1), n - size) \o <<last>>

_STDERR_CAP == 32 * 1024

RECURSIVE Total(_)
Total(chunks) == IF chunks = <<>> THEN 0 ELSE Head(chunks).size + Total(Tail(chunks))

DropOldest_once(chunks) ==
    IF Total(chunks) > _STDERR_CAP /\ chunks # <<>> THEN Tail(chunks) ELSE chunks

\* while total > _STDERR_CAP and chunks: total -= len(chunks.pop(0))
RECURSIVE DropOldest(_)
DropOldest(chunks) ==
    IF Total(chunks) > _STDERR_CAP /\ chunks # <<>> THEN DropOldest(Tail(chunks)) ELSE chunks

\* b"".join(chunks).decode(...)
Joined(chunks) == [k \in 1 .. Len(chunks) |-> Piece(chunks[k])]

\* SrtFile.get_data_at_time(t).status_line(): the first entry that covers t
RECURSIVE get_data_at_time(_, _)
get_data_at_time(entries, t) ==
    IF entries = <<>> THEN None
    ELSE IF Head(entries).start_ms <= t /\ t < Head(entries).end_ms THEN Some(Head(entries).text)
    ELSE get_data_at_time(Tail(entries), t)

\* the locals of _overlay_pipeline that lines 477..506 compute
TrimWindow(j) ==
    LET t_start == IF F64Less(F64Of(1, 100), j.trim_start) THEN j.trim_start ELSE F64Zero
        t_end   == IF F64Less(F64Of(1, 100), j.trim_end) THEN j.trim_end ELSE j.duration
        \* max(0.001, _t_end - _t_start); a negative difference loses to 0.001
        diff    == IF F64Less(t_end, t_start) THEN F64Zero ELSE F64Sub(t_end, t_start)
    IN  TheOne({
            [t_start |-> t_start, t_end |-> t_end, t_dur |-> t_dur,
             osd_in_window |->
                 \E k \in 1 .. Len(j.osd_data.frames) :
                     /\ t_start_ms <= j.osd_data.frames[k].time_ms
                     /\ j.osd_data.frames[k].time_ms <= t_end_ms + 500,
             n_out_frames |-> Max(1, F64Trunc(F64Mul(t_dur, j.fps)))]
            : t_dur \in {IF F64Less(diff, F64Of(1, 1000)) THEN F64Of(1, 1000) ELSE diff},
              t_start_ms \in {F64Trunc(F64Mul(t_start, F64FromInt(1000)))},
              t_end_ms \in {F64Trunc(F64Mul(t_end, F64FromInt(1000)))}})

\* abs_t_ms = int((_t_start + i / fps) * 1000)
abs_t_ms(t_start, i, fps) ==
    F64Trunc(F64Mul(F64Add(t_start, F64Div(F64FromInt(i), fps)), F64FromInt(1000)))

\* 5 + int(i / n_out_frames * 100), not clamped
pct_wide(i, n_out_frames) ==
    5 + F64Trunc(F64Mul(F64Div(F64FromInt(i), F64FromInt(n_out_frames)),
                        F64FromInt(100)))

\* pct = min(5 + int(i / n_out_frames * 85), 90)
pct(i, n_out_frames) ==
    Min(5 + F64Trunc(F64Mul(F64Div(F64FromInt(i), F64FromInt(n_out_frames)),
                            F64FromInt(85))), 90)

_CACHE_MAX == 32

\* cache_key in _frame_cache
InCache(cache, key) == \E k \in 1 .. Len(cache) : cache[k].key = key

\* _frame_cache[next(iter(_frame_cache))]: the first entry, whatever the key
Cached_first(cache, key) == cache[1].data

\* _frame_cache[cache_key]
Cached(cache, key) == cache[CHOOSE k \in 1 .. Len(cache) : cache[k].key = key].data

CachePut_late(cache, key, data) ==
    Append(IF Len(cache) > _CACHE_MAX THEN Tail(cache) ELSE cache,
           [key |-> key, data |-> data])

\* if len(_frame_cache) >= _CACHE_MAX: del the oldest; then the new entry
CachePut(cache, key, data) ==
    Append(IF Len(cache) >= _CACHE_MAX THEN Tail(cache) ELSE cache,
           [key |-> key, data |-> data])

\* What the streaming phase does up to its next stdin.write: in the branch
\* without telemetry in the window the blank composite; in the render loop
\* iteration w.i with its timestamp, lookup and cache.  The result holds
\* the entry to write, the cache and the renderer after.
NextWrite(j, w, r, buf, gl, srts) ==
    LET t         == abs_t_ms(w.t_start, w.i, j.fps)
        at        == IF w.osd_in_window THEN frame_at_time(j.osd_data, t) ELSE None
        osd_frame == IF at = None THEN None ELSE Some(j.osd_data.frames[TheOne(at) + 1])
        td        == IF w.osd_in_window /\ j.srt_data # None /\ r.cfg.show_srt_bar
                     THEN get_data_at_time(TheOne(j.srt_data), t) ELSE None
        srt_text  == IF td # None THEN TheOne(td) ELSE ""
        cache_key == <<IF osd_frame # None THEN TheOne(osd_frame).index ELSE -1, srt_text>>
        hit       == w.osd_in_window /\ InCache(w.frame_cache, cache_key)
    IN  TheOne({
            IF ~w.osd_in_window
            THEN [entry |-> [data |-> TheOne(c).frame], frame_cache |-> w.frame_cache,
                  frame_buf |-> TheOne(c).frame, glyphs |-> TheOne(c).glyphs,
                  srt_cache |-> TheOne(c).srt_cache]
            ELSE IF hit
            THEN [entry |-> [i |-> w.i, abs_t_ms |-> t, key |-> cache_key,
                             data |-> Cached(w.frame_cache, cache_key)],
                  frame_cache |-> w.frame_cache,
                  frame_buf |-> buf, glyphs |-> gl, srt_cache |-> srts]
            ELSE [entry |-> [i |-> w.i, abs_t_ms |-> t, key |-> cache_key,
                             data |-> TheOne(c).frame],
                  frame_cache |-> CachePut(w.frame_cache, cache_key, TheOne(c).frame),
                  frame_buf |-> TheOne(c).frame, glyphs |-> TheOne(c).glyphs,
                  srt_cache |-> TheOne(c).srt_cache]
            : c \in {IF hit THEN None
                     ELSE Some(composite(r, buf, gl, srts, osd_frame, srt_text))}})

\* err[-2000:] in "Encode failed", err[-800:] in "GPU encode failed"
FailureOf(j, returncode, err) ==
    IF j.hw /\ \E k \in 1 .. Len(err) : err[k].gpu
    THEN [kind |-> "GPU encode failed", tail |-> Suffix(err, 800)]
    ELSE [kind |-> "Encode failed", returncode |-> returncode, tail |-> Suffix(err, 2000)]

\* --- the jobs -------------------------------------------------------------

\* frames the encoder's stdin pipe holds before a write blocks
PipeFrames == 1
\* chunks the encoder writes to stderr, chunks its stderr pipe holds
MaxErrChunks == 2
ErrPipeChunks == 1

\* an OsdFile with one frame per timestamp, the two grids in turn
OsdOf(times) ==
    [stats |-> FlightStats,
     frames |-> [k \in 1 .. Len(times) |->
                    [index |-> k - 1, time_ms |-> times[k],
                     grid |-> IF k % 2 = 1 THEN FrameP.grid ELSE FrameQ.grid]],
     timestamps |-> times]

\* trim times in tenths of a second, duration and frame rate whole numbers
ExportJob(start, end, duration, fps, times, srt, hw) ==
    [trim_start |-> F64Of(start, 10), trim_end |-> F64Of(end, 10),
     duration |-> F64FromInt(duration), fps |-> F64FromInt(fps),
     osd_data |-> OsdOf(times), srt_data |-> srt, hw |-> hw,
     cfg |-> OsdRenderConfig(0, 0, 100, TRUE, "", 60)]

SrtEntries == <<[start_ms |-> 0, end_ms |-> 1000, text |-> "A"],
                [start_ms |-> 1000, end_ms |-> 3000, text |-> " "]>>

ExportJobs ==
    {ExportJob(5, 15, 2, 10, <<0, 600, 1200>>, None, FALSE),
     ExportJob(3, 23, 4, 1, <<0, 600, 1200>>, None, FALSE),
     ExportJob(2, 18, 2, 5, <<0, 1600>>, Some(SrtEntries), FALSE),
     ExportJob(5, 15, 2, 10, <<1800>>, None, FALSE),
     ExportJob(5, 15, 2, 10, <<100>>, None, FALSE),
     ExportJob(5, 15, 2, 10, <<2100>>, None, TRUE),
     ExportJob(0, 0, 1, 2, <<0, 600>>, Some(SrtEntries), TRUE),
     ExportJob(15, 5, 2, 10, <<0, 600, 1200>>, None, FALSE)}

ErrChunks == {[size |-> 4096, gpu |-> FALSE], [size |-> 700, gpu |-> TRUE]}

WriteErrors == {"BrokenPipeError", "EINVAL", "OSError"}

\* --- the operations ---------------------------------------------------------------

InitExport ==
    /\ OsdIdle
    /\ FontIdle
    /\ RenderIdle
    /\ job \in {Some(j) : j \in ExportJobs}
    /\ wk = Worker("begin")
    /\ written = <<>>
    /\ progress = <<>>
    /\ proc = [state |-> "none"]
    /\ errpipe = <<>>
    /\ drain = [pc |-> "none"]
    /\ store = <<>>
    /\ result = None
    /\ stop_flag = FALSE
    /\ RestIdle

\* _overlay_pipeline from its first line to the start of the render loop:
\* the renderer, the trim window, the subprocess, the drain thread
Setup ==
    /\ wk.pc = "begin"
    /\ \E j \in job : \E tw \in {TrimWindow(j)} :
           /\ rdr' = Some(OsdRenderer(VideoSize.w, VideoSize.h, Some(TinyFont), j.cfg))
           /\ wk' = [pc |-> "stream", i |-> 0, t_start |-> tw.t_start,
                     n_out_frames |-> tw.n_out_frames,
                     osd_in_window |-> tw.osd_in_window,
                     osd_trimmed_warning |->
                         IF tw.osd_in_window THEN ""
                         ELSE "No OSD elements in trim window",
                     frame_cache |-> <<>>, exc |-> "none"]
           /\ progress' = IF tw.osd_in_window THEN <<5>> ELSE <<0, 5>>
    /\ glyphs' = <<>>
    /\ srt_cache' = <<>>
    /\ frame_buf' = [p \in PixelsOf(VideoSize.w, VideoSize.h) |-> Transparent]
    /\ proc' = [state |-> "running", returncode |-> 0, stdin |-> "open",
                consumed |-> 0, log |-> <<>>, waited |-> FALSE]
    /\ drain' = [pc |-> "run", chunks |-> <<>>]
    /\ store' = <<>>
    /\ UNCHANGED <<job, written, errpipe, result, stop_flag>>
    /\ UNCHANGED <<c_call, c_pastes, pil_call, pil_ret>>
    /\ UNCHANGED osdVars
    /\ UNCHANGED fontVars
    /\ UNCHANGED restVars

\* stdin.write returns: the subprocess runs and the pipe has room
CanWrite == proc.state = "running" /\ Len(written) - proc.consumed < PipeFrames

\* stdin.write raises: the read end is gone (BrokenPipeError, or EINVAL on
\* Windows), or the system reports another error
CanRaise(exc) == exc \in {"BrokenPipeError", "EINVAL"} => proc.state = "exited"

\* The next stdin.write of the streaming phase and what leads to it: the
\* blank frame (lines 580..584) or one iteration of the render loop (lines
\* 586..611).  The write returns (how = "written"), or it raises how and
\* the except clause catches it as exc: a BrokenPipeError or an OSError with
\* errno EINVAL is swallowed, an OSError with another errno is re-raised.
Write(how) ==
    /\ wk.pc = "stream"
    /\ IF how = "written" THEN CanWrite ELSE CanRaise(how)
    /\ \E nw \in {NextWrite(TheOne(job), wk, TheOne(rdr), frame_buf, glyphs, srt_cache)} :
           /\ frame_buf' = nw.frame_buf
           /\ glyphs' = nw.glyphs
           /\ srt_cache' = nw.srt_cache
           /\ IF how = "written"
              THEN /\ written' = Append(written, nw.entry)
                   /\ wk' = IF wk.osd_in_window
                            THEN [wk EXCEPT !.i = wk.i + 1, !.frame_cache = nw.frame_cache,
                                            !.pc = IF wk.i + 1 = wk.n_out_frames
                                                   THEN "finally" ELSE "stream"]
                            ELSE [wk EXCEPT !.pc = "finally"]
                   /\ progress' =
                          IF ~wk.osd_in_window THEN Append(progress, 50)
                          ELSE IF \/ wk.i % Max(1, wk.n_out_frames \div 50) = 0
                                  \/ wk.i = wk.n_out_frames - 1
                          THEN Append(progress, pct(wk.i, wk.n_out_frames))
                          ELSE progress
              ELSE /\ wk' = [wk EXCEPT !.frame_cache = nw.frame_cache, !.pc = "finally",
                                       !.exc = how]
                   /\ UNCHANGED <<written, progress>>
    /\ UNCHANGED <<job, proc, errpipe, drain, store, result, stop_flag>>
    /\ UNCHANGED <<rdr, c_call, c_pastes, pil_call, pil_ret>>
    /\ UNCHANGED osdVars
    /\ UNCHANGED fontVars
    /\ UNCHANGED restVars

\* the except clause keeping only the POSIX case: EINVAL is re-raised
Swallowed_posix(exc) == exc = "BrokenPipeError"

\* the except clause: isinstance(exc, BrokenPipeError) or exc.errno == EINVAL
\* means the encoder exited early, anything else is re-raised
Swallowed(exc) == exc \in {"BrokenPipeError", "EINVAL"}

\* the finally clause: stdin.close(); then either the re-raised error leaves
\* _overlay_pipeline and run() emits finished(False, str(e)), or "Encoding..."
\* is reported and the worker goes on to wait
CloseStdin ==
    /\ wk.pc = "finally"
    /\ proc' = [proc EXCEPT !.stdin = "closed"]
    /\ IF wk.exc # "none" /\ ~Swallowed(wk.exc)
       THEN /\ wk' = [wk EXCEPT !.pc = "end"]
            /\ result' = Some([ok |-> FALSE, msg |-> [kind |-> "OSError"]])
            /\ UNCHANGED progress
       ELSE /\ wk' = [wk EXCEPT !.pc = "wait"]
            /\ progress' = Append(progress, 92)
            /\ UNCHANGED result
    /\ UNCHANGED <<job, written, errpipe, drain, store, stop_flag>>
    /\ UNCHANGED renderVars
    /\ UNCHANGED osdVars
    /\ UNCHANGED fontVars
    /\ UNCHANGED restVars

\* ffmpeg_proc.wait() returning, the return code check, and run() emitting
\* finished: the failure carries what the store holds at this moment
Wait ==
    /\ wk.pc = "wait"
    /\ proc.state = "exited"
    /\ proc' = [proc EXCEPT !.waited = TRUE]
    /\ wk' = [wk EXCEPT !.pc = "end"]
    /\ IF proc.returncode # 0
       THEN /\ result' = Some([ok |-> FALSE,
                               msg |-> FailureOf(TheOne(job), proc.returncode, store)])
            /\ UNCHANGED progress
       ELSE /\ result' = Some([ok |-> TRUE, msg |-> wk.osd_trimmed_warning])
            /\ progress' = Append(progress, 100)
    /\ UNCHANGED <<job, written, errpipe, drain, store, stop_flag>>
    /\ UNCHANGED renderVars
    /\ UNCHANGED osdVars
    /\ UNCHANGED fontVars
    /\ UNCHANGED restVars

\* MainWindow._stop_render -> ProcessWorker.stop(): the flag, then
\* QThread.terminate() on the running worker; nothing else is touched
Stop ==
    /\ wk.pc \notin {"idle", "end", "terminated"}
    /\ stop_flag' = TRUE
    /\ wk' = [wk EXCEPT !.pc = "terminated"]
    /\ UNCHANGED <<job, written, progress, proc, errpipe, drain, store, result>>
    /\ UNCHANGED renderVars
    /\ UNCHANGED osdVars
    /\ UNCHANGED fontVars
    /\ UNCHANGED restVars

\* the encoder takes one frame from its stdin
EncoderReads ==
    /\ proc.state = "running"
    /\ proc.consumed < Len(written)
    /\ proc' = [proc EXCEPT !.consumed = proc.consumed + 1]
    /\ UNCHANGED <<job, wk, written, progress, errpipe, drain, store, result, stop_flag>>
    /\ UNCHANGED renderVars
    /\ UNCHANGED osdVars
    /\ UNCHANGED fontVars
    /\ UNCHANGED restVars

\* the encoder writes a chunk of diagnostics to stderr
EncoderLogs(c) ==
    /\ proc.state = "running"
    /\ Len(proc.log) < MaxErrChunks
    /\ Len(errpipe) < ErrPipeChunks
    /\ \E chunk \in {[seq |-> Len(proc.log) + 1, size |-> c.size, gpu |-> c.gpu]} :
           /\ errpipe' = Append(errpipe, chunk)
           /\ proc' = [proc EXCEPT !.log = Append(proc.log, chunk)]
    /\ UNCHANGED <<job, wk, written, progress, drain, store, result, stop_flag>>
    /\ UNCHANGED renderVars
    /\ UNCHANGED osdVars
    /\ UNCHANGED fontVars
    /\ UNCHANGED restVars

\* the encoder exits, at the end of its work or before
EncoderExits(returncode) ==
    /\ proc.state = "running"
    /\ proc' = [proc EXCEPT !.state = "exited", !.returncode = returncode]
    /\ UNCHANGED <<job, wk, written, progress, errpipe, drain, store, result, stop_flag>>
    /\ UNCHANGED renderVars
    /\ UNCHANGED osdVars
    /\ UNCHANGED fontVars
    /\ UNCHANGED restVars

\* _drain: one pipe.read(4096) returning a chunk, the cap applied
DrainRead ==
    /\ drain.pc = "run"
    /\ errpipe # <<>>
    /\ drain' = [drain EXCEPT !.chunks = DropOldest(Append(drain.chunks, Head(errpipe)))]
    /\ errpipe' = Tail(errpipe)
    /\ UNCHANGED <<job, wk, written, progress, proc, store, result, stop_flag>>
    /\ UNCHANGED renderVars
    /\ UNCHANGED osdVars
    /\ UNCHANGED fontVars
    /\ UNCHANGED restVars

\* _drain: pipe.read returning b"" once the encoder is gone, then the store
DrainEnds ==
    /\ drain.pc = "run"
    /\ errpipe = <<>>
    /\ proc.state = "exited"
    /\ drain' = [drain EXCEPT !.pc = "done"]
    /\ store' = Joined(drain.chunks)
    /\ UNCHANGED <<job, wk, written, progress, proc, errpipe, result, stop_flag>>
    /\ UNCHANGED renderVars
    /\ UNCHANGED osdVars
    /\ UNCHANGED fontVars
    /\ UNCHANGED restVars

NextExport ==
    \/ Setup
    \/ \E how \in {"written"} \cup WriteErrors : Write(how)
    \/ CloseStdin
    \/ Wait
    \/ Stop
    \/ EncoderReads
    \/ \E c \in ErrChunks : EncoderLogs(c)
    \/ \E returncode \in {0, 1} : EncoderExits(returncode)
    \/ DrainRead
    \/ DrainEnds

SpecExport == InitExport /\ [][NextExport]_vars

\* ---------------------------------------------------------------------
\* video_processor.py: detect_hw_encoder and its two callers, the startup
\* detection thread of MainWindow.__init__ and process_video in the export
\* worker
\* ---------------------------------------------------------------------

\* sub in s, for a sub that is one of the words of an encoder name
In(sub, s) == \E i \in DOMAIN s : s[i] = sub

\* the dict detect_hw_encoder caches and returns for candidate k
HwInfo(k) ==
    [name |-> _HW_CANDIDATES[k].name,
     h264 |-> _HW_CANDIDATES[k].h264,
     h265 |-> _HW_CANDIDATES[k].h265,
     vaapi |-> In("vaapi", _HW_CANDIDATES[k].h264)]

\* the builds of the encoder binary: the candidates compiled into it
Builds == {{}, {1}, {3}, {2, 4}, {1, 3, 4}, {5, 6}}

\* how a test encode can end: exit code 0, a non-zero exit code without or
\* with a no-device phrase on stderr, the hard timeout, any other exception
TestOutcomes == {"zero", "nonzero", "nodevice", "timeout", "error"}

\* the exports of one run of the program
MaxExports == 2

InitProbe ==
    /\ OsdIdle
    /\ FontIdle
    /\ RenderIdle
    /\ ExportIdle
    /\ StartIdle
    /\ CacheIdle
    /\ PlaceIdle
    /\ DecIdle
    /\ _hw_probe_cache = None
    /\ thr = [c \in {"startup", "export"} |-> Call("idle")]
    /\ binary \in Builds
    /\ runs = [i \in DOMAIN _HW_CANDIDATES |-> 0]
    /\ cache_writes = 0
    /\ first_ret = None
    /\ hw_check = [enabled |-> FALSE, checked |-> FALSE]
    /\ gpu = [done |-> FALSE, result |-> None, polling |-> TRUE]
    /\ exports = 0

CacheHit_never(cache) == FALSE

\* if _hw_probe_cache is not None
CacheHit(cache) == cache # None

\* the first lines of detect_hw_encoder: a probed cache is returned
\* (an empty dict as None), otherwise the call goes on to the listing
Begin ==
    IF CacheHit(_hw_probe_cache)
    THEN [Call("done") EXCEPT !.ret = TheOne(_hw_probe_cache),
                              !.late = first_ret # None]
    ELSE [Call("listing") EXCEPT !.probed = TRUE, !.late = first_ret # None]

\* the result of the first call that returned
Returned(t) ==
    IF first_ret = None /\ t.pc = "done" THEN Some(t.ret) ELSE first_ret

\* MainWindow.__init__ starts the thread that runs _detect_gpu, which calls
\* detect_hw_encoder
StartupDetect ==
    /\ thr["startup"].pc = "idle"
    /\ \E t \in {Begin} :
        /\ thr' = [thr EXCEPT !["startup"] = t]
        /\ first_ret' = Returned(t)
    /\ UNCHANGED <<_hw_probe_cache, binary, runs, cache_writes, hw_check, gpu, exports>>
    /\ UNCHANGED <<osdVars, fontVars, renderVars, exportVars, startVars, sideVars>>

\* _render reads use_hw off the check box and starts the worker, whose
\* process_video calls detect_hw_encoder if config.use_hw, else takes None
Render ==
    /\ thr["export"].pc \in {"idle", "done", "skipped"}
    /\ exports < MaxExports
    /\ exports' = exports + 1
    /\ \E t \in {IF hw_check.checked THEN Begin ELSE Call("skipped")} :
        /\ thr' = [thr EXCEPT !["export"] = t]
        /\ first_ret' = Returned(t)
    /\ UNCHANGED <<_hw_probe_cache, binary, runs, cache_writes, hw_check, gpu>>
    /\ UNCHANGED <<osdVars, fontVars, renderVars, exportVars, startVars, sideVars>>

\* step 1: [ffmpeg, "-encoders"]; compiled is what it lists, or the empty
\* set when the run raised
Listing(c, listed) ==
    /\ thr[c].pc = "listing"
    /\ thr' = [thr EXCEPT ![c].pc = "loop",
                          ![c].compiled =
                              IF listed
                              THEN {_HW_CANDIDATES[i].h264 : i \in binary}
                              ELSE {}]
    /\ UNCHANGED <<_hw_probe_cache, binary, runs, cache_writes, first_ret,
                   hw_check, gpu, exports>>
    /\ UNCHANGED <<osdVars, fontVars, renderVars, exportVars, startVars, sideVars>>

\* the candidates from k on that the loop does not skip as not compiled in
Remaining(t) ==
    {i \in DOMAIN _HW_CANDIDATES : i >= t.k /\ _HW_CANDIDATES[i].h264 \in t.compiled}

\* the for loop up to the next test encode: candidates not in compiled are
\* passed over; with none left the miss is cached and None returned
NextCandidate(c) ==
    /\ thr[c].pc = "loop"
    /\ IF Remaining(thr[c]) = {}
       THEN /\ _hw_probe_cache' = Some(None)
            /\ cache_writes' = cache_writes + 1
            /\ \E t \in {[thr[c] EXCEPT !.pc = "done", !.ret = None,
                                        !.k = Len(_HW_CANDIDATES) + 1]} :
                /\ thr' = [thr EXCEPT ![c] = t]
                /\ first_ret' = Returned(t)
            /\ UNCHANGED runs
       ELSE \E i \in Remaining(thr[c]) :
            /\ \A j \in Remaining(thr[c]) : i <= j
            /\ thr' = [thr EXCEPT ![c].pc = "test", ![c].k = i]
            /\ runs' = [runs EXCEPT ![i] = @ + 1]
            /\ UNCHANGED <<_hw_probe_cache, cache_writes, first_ret>>
    /\ UNCHANGED <<binary, hw_check, gpu, exports>>
    /\ UNCHANGED <<osdVars, fontVars, renderVars, exportVars, startVars, sideVars>>

Usable_zero(how) == how = "zero"

\* rc == 0, or a non-zero rc whose stderr has none of _NO_DEVICE_PHRASES
Usable(how) == how \in {"zero", "nonzero"}

\* the test encode of candidate k ends: a usable candidate is cached and
\* returned, any other is left for the next one
TestEnds(c, how) ==
    /\ thr[c].pc = "test"
    /\ IF Usable(how)
       THEN /\ _hw_probe_cache' = Some(Some(HwInfo(thr[c].k)))
            /\ cache_writes' = cache_writes + 1
            /\ \E t \in {[thr[c] EXCEPT !.pc = "done",
                                        !.seen[thr[c].k] = how,
                                        !.ret = Some(HwInfo(thr[c].k))]} :
                /\ thr' = [thr EXCEPT ![c] = t]
                /\ first_ret' = Returned(t)
       ELSE /\ thr' = [thr EXCEPT ![c].pc = "loop",
                                  ![c].seen[thr[c].k] = how,
                                  ![c].k = @ + 1]
            /\ UNCHANGED <<_hw_probe_cache, cache_writes, first_ret>>
    /\ UNCHANGED <<binary, runs, hw_check, gpu, exports>>
    /\ UNCHANGED <<osdVars, fontVars, renderVars, exportVars, startVars, sideVars>>

\* _detect_gpu after the call: _gpu_result[0] = _hw if _hw else False,
\* _gpu_done[0] = True
DetectGpuDone ==
    /\ thr["startup"].pc = "done"
    /\ ~gpu.done
    /\ gpu' = [gpu EXCEPT !.done = TRUE, !.result = thr["startup"].ret]
    /\ UNCHANGED <<_hw_probe_cache, thr, binary, runs, cache_writes, first_ret,
                   hw_check, exports>>
    /\ UNCHANGED <<osdVars, fontVars, renderVars, exportVars, startVars, sideVars>>

\* _poll_gpu on the main thread: once the detection is done the timer
\* stops, and a found encoder enables and checks the check box
PollGpu ==
    /\ gpu.polling
    /\ gpu.done
    /\ gpu' = [gpu EXCEPT !.polling = FALSE]
    /\ hw_check' = IF gpu.result # None
                   THEN [enabled |-> TRUE, checked |-> TRUE]
                   ELSE hw_check
    /\ UNCHANGED <<_hw_probe_cache, thr, binary, runs, cache_writes, first_ret,
                   exports>>
    /\ UNCHANGED <<osdVars, fontVars, renderVars, exportVars, startVars, sideVars>>

\* the user clicks the check box, which takes clicks only when enabled
ToggleHw ==
    /\ hw_check.enabled
    /\ hw_check' = [hw_check EXCEPT !.checked = ~@]
    /\ UNCHANGED <<_hw_probe_cache, thr, binary, runs, cache_writes, first_ret,
                   gpu, exports>>
    /\ UNCHANGED <<osdVars, fontVars, renderVars, exportVars, startVars, sideVars>>

NextProbe ==
    \/ StartupDetect
    \/ Render
    \/ \E c \in {"startup", "export"}, listed \in BOOLEAN : Listing(c, listed)
    \/ \E c \in {"startup", "export"} : NextCandidate(c)
    \/ \E c \in {"startup", "export"}, how \in TestOutcomes : TestEnds(c, how)
    \/ DetectGpuDone
    \/ PollGpu
    \/ ToggleHw

SpecProbe == InitProbe /\ [][NextProbe]_vars

\* ---------------------------------------------------------------------
\* video_processor.py: process_video up to the pipeline it chooses, and
\* _reencode_only
\* ---------------------------------------------------------------------

\* one argument of a command line: a word, or a number as it is formatted,
\* whole part and decimals, followed by text
Word(w) == [text |-> w, digits |-> <<>>]

\* str(n) of an int
Str(n) == [text |-> "", digits |-> <<n>>]

\* f"{n}M" of an int
StrM(n) == [text |-> "M", digits |-> <<n>>]

\* f"{x:.1f}M" of a float x that is a whole number of tenths
Fmt1M(tenths) == [text |-> "M", digits |-> <<tenths \div 10, tenths % 10>>]

\* the log files of the model: three bytes, a header followed by half a
\* record, and one complete record
StartFiles ==
    {[len |-> 3, tag |-> TagBTFL, recs |-> <<>>],
     [len |-> HEADER_SIZE + 2, tag |-> TagBTFL,
      recs |-> <<[ts |-> 0, screen |-> ScreenBlank]>>],
     [len |-> HEADER_SIZE + FRAME_SIZE, tag |-> TagBTFL,
      recs |-> <<[ts |-> 0, screen |-> ScreenBlank]>>]}

\* the OsdFile the window holds and passes as config.osd_data
GivenOsd ==
    parse_osd([len |-> HEADER_SIZE + FRAME_SIZE, tag |-> TagBTFL,
               recs |-> <<[ts |-> 0, screen |-> ScreenBlank]>>]).osd

\* the job configurations: ffmpeg and video say what find_ffmpeg and
\* get_video_info will find, osd_file holds the bytes of the file it names,
\* srt_file and font_folder say whether they name something loadable,
\* detected is what detect_hw_encoder returns, an encoder whenever use_hw
\* is set
StartConfigs ==
    {[ffmpeg |-> ff, video |-> vd, osd_data |-> od, osd_file |-> of,
      srt_file |-> sf, font_folder |-> fo, codec |-> co, crf |-> cr,
      preset |-> "medium", bitrate_mbps |-> br,
      use_hw |-> hw # None, detected |-> hw] :
        ff \in BOOLEAN, vd \in {"ok", "unreadable"},
        od \in {None, GivenOsd},
        of \in {None} \cup {Some(f) : f \in StartFiles},
        sf \in {"none", "ok", "unreadable"},
        fo \in {"none", "ok"},
        co \in {<<"libx264">>, <<"libx265">>},
        cr \in {23, 45},
        br \in {None, Some(5), Some(8)},
        hw \in {None} \cup {Some(HwInfo(k)) : k \in DOMAIN _HW_CANDIDATES}}

InitStart ==
    /\ OsdIdle
    /\ FontIdle
    /\ RenderIdle
    /\ ExportIdle
    /\ ProbeIdle
    /\ CacheIdle
    /\ PlaceIdle
    /\ DecIdle
    /\ pconfig \in {Some(c) : c \in StartConfigs}
    /\ pv = Pv("begin")
    /\ spawns = <<>>
    /\ produced = FALSE

\* progress_callback(pct, msg)
Message(percent, msg) == [pct |-> percent, msg |-> msg]

\* osd_data after the load: config.osd_data when given, else what parse_osd
\* returns for config.osd_file, None when it raises
LoadOsd(c) ==
    IF c.osd_data # None THEN [osd_data |-> c.osd_data, messages |-> <<>>]
    ELSE IF c.osd_file = None THEN [osd_data |-> None, messages |-> <<>>]
    ELSE TheOne({IF r.outcome = "ok"
                 THEN [osd_data |-> r.osd, messages |-> <<>>]
                 ELSE [osd_data |-> None,
                       messages |-> <<Message(0, "OSD warning")>>] :
                     r \in {parse_osd(TheOne(c.osd_file))}})

\* srt_data after the load
LoadSrt(c) ==
    IF c.srt_file = "none" THEN [srt_data |-> None, messages |-> <<>>]
    ELSE IF c.srt_file = "ok" THEN [srt_data |-> Some("SrtFile"), messages |-> <<>>]
    ELSE [srt_data |-> None, messages |-> <<Message(0, "SRT warning")>>]

\* font after the load
LoadFont(c) == IF c.font_folder = "ok" THEN Some("OsdFont") ELSE None

\* process_video from its first line to the end of the load: without
\* ffmpeg it raises; with neither telemetry nor SRT it goes to
\* _reencode_only
LoadData ==
    /\ pv.pc = "begin"
    /\ \E c \in pconfig :
       IF ~c.ffmpeg
       THEN pv' = [pv EXCEPT !.pc = "end", !.raised = "FileNotFoundError"]
       ELSE \E o \in {LoadOsd(c)}, s \in {LoadSrt(c)} :
            pv' = [pv EXCEPT !.osd_data = o.osd_data,
                             !.srt_data = s.srt_data,
                             !.font = LoadFont(c),
                             !.messages = o.messages \o s.messages,
                             !.pc = IF o.osd_data = None /\ s.srt_data = None
                                    THEN "reencode" ELSE "info"]
    /\ UNCHANGED <<pconfig, spawns, produced>>
    /\ UNCHANGED <<osdVars, fontVars, renderVars, exportVars, probeVars, sideVars>>

\* the encoder arguments of _reencode_only
ReencodeArgs(c) ==
    <<Word("-crf"), Str(c.crf), Word("-preset"), Word(c.preset)>>

\* _reencode_only up to the Popen
ReencodeSpawn ==
    /\ pv.pc = "reencode"
    /\ \E c \in pconfig :
        spawns' = Append(spawns, [by |-> "_reencode_only", encoder |-> c.codec,
                                  args |-> ReencodeArgs(c)])
    /\ pv' = [pv EXCEPT !.pc = "reencode_wait",
                        !.messages = Append(@, Message(5, "Re-encoding"))]
    /\ UNCHANGED <<pconfig, produced>>
    /\ UNCHANGED <<osdVars, fontVars, renderVars, exportVars, probeVars, sideVars>>

\* proc.wait() and the return code
ReencodeEnds(returncode) ==
    /\ pv.pc = "reencode_wait"
    /\ IF returncode # 0
       THEN /\ pv' = [pv EXCEPT !.pc = "end", !.raised = "RuntimeError"]
            /\ UNCHANGED produced
       ELSE /\ pv' = [pv EXCEPT !.pc = "end",
                                !.messages = Append(@, Message(100, "Done!"))]
            /\ produced' = TRUE
    /\ UNCHANGED <<pconfig, spawns>>
    /\ UNCHANGED <<osdVars, fontVars, renderVars, exportVars, probeVars, sideVars>>

\* get_video_info and the check of its result
VideoInfo ==
    /\ pv.pc = "info"
    /\ \E c \in pconfig :
        pv' = IF c.video = "ok"
              THEN [pv EXCEPT !.pc = "resolve"]
              ELSE [pv EXCEPT !.pc = "end", !.raised = "RuntimeError"]
    /\ UNCHANGED <<pconfig, spawns, produced>>
    /\ UNCHANGED <<osdVars, fontVars, renderVars, exportVars, probeVars, sideVars>>

\* quality_args of the hardware branch
HwQualityArgs(encoder, crf) ==
    IF In("nvenc", encoder)
    THEN <<Word("-rc:v"), Word("vbr"), Word("-cq"), Str(Min(51, crf + 9)),
           Word("-maxrate"), StrM(50), Word("-bufsize"), StrM(100)>>
    ELSE IF In("vaapi", encoder)
    THEN <<Word("-rc_mode"), Word("VBR"), Word("-qp"), Str(crf)>>
    ELSE IF In("amf", encoder)
    THEN <<Word("-rc"), Word("cqp"), Word("-qp_i"), Str(crf), Word("-qp_p"), Str(crf)>>
    ELSE IF In("qsv", encoder)
    THEN <<Word("-global_quality"), Str(crf)>>
    ELSE <<Word("-cq"), Str(crf)>>

\* quality_args of the CPU branch: bitrate_mbps * 1.5 and * 2 with one
\* decimal
CpuQualityArgs(c) ==
    IF c.bitrate_mbps # None
    THEN <<Word("-b:v"), StrM(TheOne(c.bitrate_mbps)),
           Word("-maxrate"), Fmt1M(TheOne(c.bitrate_mbps) * 15),
           Word("-bufsize"), Fmt1M(TheOne(c.bitrate_mbps) * 20)>>
    ELSE <<Word("-crf"), Str(c.crf)>>

\* the "Resolve encoder" part of process_video
ResolveEncoder ==
    /\ pv.pc = "resolve"
    /\ \E c \in pconfig :
       \E hw_info \in {IF c.use_hw THEN c.detected ELSE None} :
       IF hw_info # None /\ c.use_hw
       THEN \E encoder \in {IF c.codec = <<"libx265">>
                            THEN TheOne(hw_info).h265 ELSE TheOne(hw_info).h264} :
            pv' = [pv EXCEPT
                     !.pc = "choose",
                     !.hw_info = hw_info,
                     !.encoder = encoder,
                     !.quality_args = HwQualityArgs(encoder, c.crf),
                     !.preset_args =
                         IF In("nvenc", encoder)
                         THEN <<Word("-preset"), Word("p6")>>
                         ELSE IF In("qsv", encoder)
                         THEN <<Word("-preset"), Word("medium")>>
                         ELSE <<>>,
                     !.pix_fmt_args =
                         IF TheOne(hw_info).vaapi
                         THEN <<Word("-pix_fmt"), Word("nv12")>>
                         ELSE IF In("nvenc", encoder) \/ In("amf", encoder)
                         THEN <<>>
                         ELSE <<Word("-pix_fmt"), Word("yuv420p")>>]
       ELSE pv' = [pv EXCEPT
                     !.pc = "choose",
                     !.hw_info = hw_info,
                     !.encoder = c.codec,
                     !.quality_args = CpuQualityArgs(c),
                     !.preset_args = <<Word("-preset"), Word(c.preset)>>,
                     !.pix_fmt_args = <<Word("-pix_fmt"), Word("yuv420p")>>]
    /\ UNCHANGED <<pconfig, spawns, produced>>
    /\ UNCHANGED <<osdVars, fontVars, renderVars, exportVars, probeVars, sideVars>>

\* "Choose pipeline", and the chosen pipeline up to the Popen of its
\* encoder
ChoosePipeline ==
    /\ pv.pc = "choose"
    /\ spawns' = Append(spawns,
                        [by |-> IF pv.font # None /\ pv.osd_data # None
                                THEN "_overlay_pipeline"
                                ELSE "_srt_only_pipeline",
                         encoder |-> pv.encoder,
                         args |-> pv.quality_args \o pv.preset_args
                                      \o pv.pix_fmt_args])
    /\ pv' = [pv EXCEPT !.pc = "pipeline",
                        !.messages = Append(@, Message(5, "pipeline"))]
    /\ UNCHANGED <<pconfig, produced>>
    /\ UNCHANGED <<osdVars, fontVars, renderVars, exportVars, probeVars, sideVars>>

\* the pipeline ends with its encoder's return code
PipelineEnds(returncode) ==
    /\ pv.pc = "pipeline"
    /\ IF returncode # 0
       THEN /\ pv' = [pv EXCEPT !.pc = "end", !.raised = "RuntimeError"]
            /\ UNCHANGED produced
       ELSE /\ pv' = [pv EXCEPT !.pc = "end",
                                !.messages = Append(@, Message(100, "Done"))]
            /\ produced' = TRUE
    /\ UNCHANGED <<pconfig, spawns>>
    /\ UNCHANGED <<osdVars, fontVars, renderVars, exportVars, probeVars, sideVars>>

NextStart ==
    \/ LoadData
    \/ ReencodeSpawn
    \/ \E returncode \in {0, 1} : ReencodeEnds(returncode)
    \/ VideoInfo
    \/ ResolveEncoder
    \/ ChoosePipeline
    \/ \E returncode \in {0, 1} : PipelineEnds(returncode)

SpecStart == InitStart /\ [][NextStart]_vars

\* ---------------------------------------------------------------------
\* The two bounded caches under long streams of keys: _get_srt called
\* with one status text after another, and the cache statements of the
\* render loop run with one cache key after another
\* ---------------------------------------------------------------------

\* status texts asked for, lookups of the render loop
MaxTexts == 516
MaxLookups == 36

\* the n-th status text
TextNo(n) == ToString(n)

\* the renderers: the status bar at opacity 0.6 and at opacity 0
CacheRenderers ==
    {OsdRenderer(VideoSize.w, VideoSize.h, Some(TinyFont),
                 OsdRenderConfig(0, 0, 100, TRUE, "", op)) : op \in {0, 60}}

\* a lookup: in which cache, with which key, found or not; n counts the
\* lookups of the render loop, fresh the distinct texts, idx is the
\* telemetry frame of the key
Lookup(kind, n, key, hit, fresh, idx) ==
    [kind |-> kind, n |-> n, key |-> key, hit |-> hit, fresh |-> fresh, idx |-> idx]

InitCache ==
    /\ OsdIdle
    /\ FontIdle
    /\ ProbeIdle
    /\ StartIdle
    /\ job = None
    /\ wk = Worker("stream")
    /\ written = <<>>
    /\ progress = <<>>
    /\ proc = [state |-> "none"]
    /\ errpipe = <<>>
    /\ drain = [pc |-> "none"]
    /\ store = <<>>
    /\ result = None
    /\ stop_flag = FALSE
    /\ rdr \in {Some(r) : r \in CacheRenderers}
    /\ glyphs = <<>>
    /\ srt_cache = <<>>
    /\ frame_buf = <<>>
    /\ c_call = None
    /\ c_pastes = {}
    /\ pil_call = None
    /\ pil_ret = None
    /\ look \in {Some(Lookup(kind, 0, <<>>, FALSE, 0, -1)) : kind \in {"srt", "frame"}}
    /\ PlaceIdle
    /\ DecIdle

\* OsdRenderer._get_srt(text)
GetSrt(text) ==
    /\ \E l \in look :
        /\ l.kind = "srt"
        /\ l.fresh < MaxTexts \/ text # TextNo(l.fresh)
        /\ text \in {TextNo(0), TextNo(l.fresh)}
        /\ \E r \in rdr :
           \E g \in {get_srt(r, srt_cache, text)} :
            /\ srt_cache' = g.srt_cache
            /\ look' = Some(Lookup("srt", 0, <<text, r.cfg.srt_opacity>>,
                                   g.srt_cache = srt_cache,
                                   IF text = TextNo(l.fresh) THEN l.fresh + 1 ELSE l.fresh,
                                   -1))
    /\ UNCHANGED <<rdr, glyphs, frame_buf, c_call, c_pastes, pil_call, pil_ret>>
    /\ UNCHANGED <<osdVars, fontVars, exportVars, probeVars, startVars, placed, dec>>

\* the cache statements of one iteration of the render loop for cache_key,
\* data standing for bytes(renderer.composite(osd_frame, srt_text))
LoopBody(cache_key, data) ==
    /\ \E l \in look :
        /\ l.kind = "frame"
        /\ l.n < MaxLookups
        /\ cache_key[1] \in {l.idx, l.idx + 1}
        /\ cache_key[2] = "A" => cache_key[1] < 1
        /\ look' = Some(Lookup("frame", l.n + 1, cache_key,
                               InCache(wk.frame_cache, cache_key), l.fresh,
                               cache_key[1]))
    /\ wk' = IF InCache(wk.frame_cache, cache_key) THEN wk
             ELSE [wk EXCEPT !.frame_cache = CachePut(wk.frame_cache, cache_key, data)]
    /\ UNCHANGED <<job, written, progress, proc, errpipe, drain, store, result, stop_flag>>
    /\ UNCHANGED <<osdVars, fontVars, renderVars, probeVars, startVars, placed, dec>>

NextCache ==
    \/ \E n \in 0 .. MaxTexts : GetSrt(TextNo(n))
    \/ \E idx \in -1 .. MaxLookups, text \in {"", "A"} :
           LoopBody(<<idx, text>>, <<"composite", idx, text>>)

SpecCache == InitCache /\ [][NextCache]_vars

\* ---------------------------------------------------------------------
\* video_processor.py: _drain on its own, reading to its end what a
\* subprocess wrote to its stderr before it exited
\* ---------------------------------------------------------------------

MaxDrained == 10

\* what the subprocess wrote: n chunks as pipe.read(4096) will return them
Logged(n) ==
    {[k \in 1 .. n |-> [seq |-> k, size |-> f[k].size, gpu |-> f[k].gpu]] :
        f \in [1 .. n -> ErrChunks]}

InitDrain ==
    /\ OsdIdle
    /\ FontIdle
    /\ RenderIdle
    /\ RestIdle
    /\ job = None
    /\ wk = Worker("stream")
    /\ written = <<>>
    /\ progress = <<>>
    /\ \E n \in 0 .. MaxDrained :
           /\ errpipe \in Logged(n)
           /\ proc = [state |-> "exited", returncode |-> 0, stdin |-> "open",
                      consumed |-> 0, log |-> errpipe, waited |-> FALSE]
    /\ drain = [pc |-> "run", chunks |-> <<>>]
    /\ store = <<>>
    /\ result = None
    /\ stop_flag = FALSE

\* _drain: pipe.read raises; except Exception: pass, then the store
DrainReadFails ==
    /\ drain.pc = "run"
    /\ drain' = [drain EXCEPT !.pc = "done"]
    /\ store' = Joined(drain.chunks)
    /\ UNCHANGED <<job, wk, written, progress, proc, errpipe, result, stop_flag>>
    /\ UNCHANGED renderVars
    /\ UNCHANGED osdVars
    /\ UNCHANGED fontVars
    /\ UNCHANGED restVars

NextDrain ==
    \/ DrainRead
    \/ DrainEnds
    \/ DrainReadFails

SpecDrain == InitDrain /\ [][NextDrain]_vars

\* ---------------------------------------------------------------------
\* osd_renderer.py: where the two renderers put the glyph of one grid cell
\* ---------------------------------------------------------------------

\* render_osd_frame lines 75-79: x0, y0 and the output tile size
pil_geo(out_w, out_h, f, cfg) ==
    LET s == auto_scale(out_w, out_h, f.tile_w, f.tile_h, cfg.scale)
    IN  [x0 |-> s.x_off + cfg.offset_x, y0 |-> s.y_off + cfg.offset_y,
         tw |-> tile_size(f.tile_w, s), th |-> tile_size(f.tile_h, s)]

\* render_osd_frame skipping a cell only when it lies beyond the edge by
\* more than a pixel (> for >=, < for <=)
pil_place_late(out_w, out_h, geo, row, col) ==
    LET px == geo.x0 + col * geo.tw
        py == geo.y0 + row * geo.th
    IN  IF px > out_w \/ py > out_h \/ px + geo.tw < 0 \/ py + geo.th < 0 THEN None
        ELSE Some([px |-> px, py |-> py, tw |-> geo.tw, th |-> geo.th])

\* render_osd_frame lines 85-88 for the cell at row, col: None when the
\* cell is skipped, else the box out.paste is given
pil_place(out_w, out_h, geo, row, col) ==
    LET px == geo.x0 + col * geo.tw
        py == geo.y0 + row * geo.th
    IN  IF px >= out_w \/ py >= out_h \/ px + geo.tw <= 0 \/ py + geo.th <= 0 THEN None
        ELSE Some([px |-> px, py |-> py, tw |-> geo.tw, th |-> geo.th])

\* composite with the destination slice not clamped to the frame
clip_unclamped(r, row, col) ==
    LET px == r.x0 + col * r.tw
        py == r.y0 + row * r.th
    IN  IF px >= r.w \/ py >= r.h \/ px + r.tw <= 0 \/ py + r.th <= 0 THEN None
        ELSE Some([px |-> px, py |-> py, tw |-> r.tw, th |-> r.th,
                   py0 |-> py, py1 |-> py + r.th, px0 |-> px, px1 |-> px + r.tw,
                   gy0 |-> 0, gy1 |-> r.th, gx0 |-> 0, gx1 |-> r.tw])

\* composite lines 263-276 for the cell at row, col: None when the cell is
\* skipped, else the slice of the frame and the slice of the glyph
clip(r, row, col) ==
    LET px == r.x0 + col * r.tw
        py == r.y0 + row * r.th
        py0 == Max(py, 0)
        py1 == Min(py + r.th, r.h)
        px0 == Max(px, 0)
        px1 == Min(px + r.tw, r.w)
        gy0 == py0 - py
        gx0 == px0 - px
    IN  IF px >= r.w \/ py >= r.h \/ px + r.tw <= 0 \/ py + r.th <= 0 THEN None
        ELSE IF py1 <= py0 \/ px1 <= px0 THEN None
        ELSE Some([px |-> px, py |-> py, tw |-> r.tw, th |-> r.th,
                   py0 |-> py0, py1 |-> py1, px0 |-> px0, px1 |-> px1,
                   gy0 |-> gy0, gy1 |-> gy0 + (py1 - py0),
                   gx0 |-> gx0, gx1 |-> gx0 + (px1 - px0)])

\* --- the videos, settings and cells of the model ------------------------------

PlaceSizes == {[w |-> 3, h |-> 2], [w |-> 5, h |-> 3]}
PlaceScales == {100, 2000, 2500}
PlaceOffsetsX == {-2, 0, 1}
PlaceOffsetsY == {-1, 0, 2}
PlaceRows == {0, 6, 9, 10, 19}
PlaceCols == {0, 2, 17, 25, 26, 27, 32, 33, 52}

\* opaque white and translucent grey
PlaceCodes == {66, 65}

\* a frame whose only non-empty cell is row, col
OneCell(row, col, code) ==
    [index |-> 0, time_ms |-> 0, grid |-> GridOf((row * GRID_COLS + col) :> code)]

\* the preview frame of a video of size sz
PlaceImage(sz) ==
    [mode |-> "RGBA", w |-> sz.w, h |-> sz.h,
     px |-> [p \in PixelsOf(sz.w, sz.h) |-> <<10 * p[1], 200, 30 * p[2], 255>>]]

\* --- the operations ---------------------------------------------------------------

InitPlace ==
    /\ OsdIdle
    /\ FontIdle
    /\ JobIdle
    /\ \E sz \in PlaceSizes, scale \in PlaceScales,
          ox \in PlaceOffsetsX, oy \in PlaceOffsetsY :
           /\ rdr = Some(OsdRenderer(sz.w, sz.h, Some(TinyFont),
                                     OsdRenderConfig(ox, oy, scale, FALSE, "", 60)))
           /\ frame_buf = [p \in PixelsOf(sz.w, sz.h) |-> Transparent]
    /\ glyphs = <<>>
    /\ srt_cache = <<>>
    /\ c_call = None
    /\ c_pastes = {}
    /\ pil_call = None
    /\ pil_ret = None
    /\ CacheIdle
    /\ PlaceIdle
    /\ DecIdle

\* renderer.composite(osd_frame, "") for a frame of one cell, the first call
\* on a renderer just built
PlaceComposite(row, col, code) ==
    /\ placed = None
    /\ \E r \in rdr :
       \E c \in {composite(r, frame_buf, <<>>, srt_cache, Some(OneCell(row, col, code)), "")} :
           /\ frame_buf' = c.frame
           /\ placed' = Some([by |-> "composite", row |-> row, col |-> col, code |-> code,
                              box |-> clip(r, row, col),
                              changed |-> {p \in DOMAIN c.frame : c.frame[p] # Transparent}])
    /\ UNCHANGED <<rdr, glyphs, srt_cache, c_call, c_pastes, pil_call, pil_ret>>
    /\ UNCHANGED <<osdVars, fontVars, exportVars, probeVars, startVars, look, dec>>

\* render_osd_frame(img, osd_frame, font, cfg) for a frame of one cell, with
\* the video size, the font and the settings the export renderer was built with
PlaceRender(row, col, code) ==
    /\ placed = None
    /\ \E r \in rdr :
       \E img \in {PlaceImage([w |-> r.w, h |-> r.h])} :
       \E ret \in {render_osd_frame(img, Some(OneCell(row, col, code)), TheOne(r.font), r.cfg)} :
           placed' = Some([by |-> "render_osd_frame", row |-> row, col |-> col, code |-> code,
                           box |-> pil_place(img.w, img.h,
                                             pil_geo(img.w, img.h, TheOne(r.font), r.cfg),
                                             row, col),
                           changed |-> {p \in DOMAIN ret.px : ret.px[p] # img.px[p]}])
    /\ UNCHANGED renderVars
    /\ UNCHANGED <<osdVars, fontVars, exportVars, probeVars, startVars, look, dec>>

NextPlace ==
    \/ \E row \in PlaceRows, col \in PlaceCols, code \in PlaceCodes :
           PlaceComposite(row, col, code)
    \/ \E row \in PlaceRows, col \in PlaceCols, code \in PlaceCodes :
           PlaceRender(row, col, code)

SpecPlace == InitPlace /\ [][NextPlace]_vars

\* ---------------------------------------------------------------------
\* video_processor.py: _srt_only_pipeline, the decoder and the encoder
\* subprocess it spawns, and the thread draining the encoder's stderr.
\* The decoder's stderr is drained by a thread of its own and never fills.
\* ---------------------------------------------------------------------

\* frames the decoder's stdout pipe holds before a write to it blocks
DecPipeFrames == 1

\* _t_start, total_trimmed = max(1, int(_t_dur * fps)) and t_offset_ms
SrtTrim(j) ==
    LET t_start == IF F64Less(F64Of(1, 100), j.trim_start) THEN j.trim_start ELSE F64Zero
        t_end   == IF F64Less(F64Of(1, 100), j.trim_end) THEN j.trim_end ELSE j.duration
    IN  [t_start |-> t_start,
         total_trimmed |-> Max(1, F64Trunc(F64Mul(F64Sub(t_end, t_start), j.fps))),
         t_offset_ms |-> F64Trunc(F64Mul(t_start, F64FromInt(1000)))]

\* t_ms = t_offset_ms + int(frame_idx / fps * 1000)
srt_t_ms(t_offset_ms, frame_idx, fps) ==
    t_offset_ms + F64Trunc(F64Mul(F64Div(F64FromInt(frame_idx), fps), F64FromInt(1000)))

\* pct = min(5 + int(frame_idx / total_trimmed * 93), 98)
srt_pct(frame_idx, total_trimmed) ==
    Min(5 + F64Trunc(F64Mul(F64Div(F64FromInt(frame_idx), F64FromInt(total_trimmed)),
                            F64FromInt(93))), 98)

\* what the loop will compute for frame_idx = 0, 1, ...: t_ms of each frame
\* and the percent reported after it; both depend on the job alone
SrtPlan(j) ==
    [t_ms |-> [i \in 0 .. SrtTrim(j).total_trimmed - 1 |->
                  srt_t_ms(SrtTrim(j).t_offset_ms, i, j.fps)],
     pct |-> [i \in 1 .. SrtTrim(j).total_trimmed |->
                 srt_pct(i, SrtTrim(j).total_trimmed)],
     t_start |-> SrtTrim(j).t_start,
     total_trimmed |-> SrtTrim(j).total_trimmed]

\* the worker before the subprocesses are spawned, with the plan of its job
SrtWorker(j) ==
    ("plan" :> SrtPlan(j))
        @@ [Worker("begin") EXCEPT !.t_start = SrtPlan(j).t_start,
                                   !.n_out_frames = SrtPlan(j).total_trimmed]

\* jobs without a font: whole video or a trim, with and without a telemetry text
SrtJobs ==
    {ExportJob(0, 0, 1, 4, <<>>, Some(SrtEntries), FALSE),
     ExportJob(5, 15, 2, 2, <<>>, Some(SrtEntries), FALSE),
     ExportJob(0, 0, 2, 1, <<>>, None, FALSE)}

\* --- the operations ---------------------------------------------------------------

InitSrtOnly ==
    /\ OsdIdle
    /\ FontIdle
    /\ RenderIdle
    /\ RestIdle
    /\ \E j \in SrtJobs :
           /\ job = Some(j)
           /\ wk = SrtWorker(j)
    /\ written = <<>>
    /\ progress = <<>>
    /\ proc = [state |-> "none"]
    /\ errpipe = <<>>
    /\ drain = [pc |-> "none"]
    /\ store = <<>>
    /\ result = None
    /\ stop_flag = FALSE

\* lines 668-702: progress 5, the two subprocesses, the two drain threads
SrtSpawn ==
    /\ wk.pc = "begin"
    /\ wk' = [wk EXCEPT !.pc = "read"]
    /\ dec' = [state |-> "running", left |-> wk.n_out_frames, out |-> 0]
    /\ progress' = <<5>>
    /\ proc' = [state |-> "running", returncode |-> 0, stdin |-> "open",
                consumed |-> 0, log |-> <<>>, waited |-> FALSE]
    /\ drain' = [pc |-> "run", chunks |-> <<>>]
    /\ store' = <<>>
    /\ UNCHANGED <<job, written, errpipe, result, stop_flag>>
    /\ UNCHANGED <<osdVars, fontVars, renderVars, probeVars, startVars, look, placed>>

\* raw = _read_exactly(dec_proc.stdout, frame_bytes): a frame, or None at
\* the end of the decoder's output, which leaves the loop
SrtRead ==
    /\ wk.pc = "read"
    /\ \/ /\ dec.out > 0
          /\ dec' = [dec EXCEPT !.out = dec.out - 1]
          /\ wk' = [wk EXCEPT !.pc = "write"]
       \/ /\ dec.out = 0
          /\ dec.state = "exited"
          /\ wk' = [wk EXCEPT !.pc = "finally"]
          /\ UNCHANGED dec
    /\ UNCHANGED <<job, written, progress, proc, errpipe, drain, store, result, stop_flag>>
    /\ UNCHANGED <<osdVars, fontVars, renderVars, probeVars, startVars, look, placed>>

\* lines 709-724: the status text of the frame, enc_proc.stdin.write, the
\* progress report; the write returns, or it raises how
SrtWrite(how) ==
    /\ wk.pc = "write"
    /\ IF how = "written" THEN CanWrite ELSE CanRaise(how)
    /\ IF how = "written"
       THEN \E j \in job :
            \E t \in {wk.plan.t_ms[wk.i]} :
            \E td \in {IF j.srt_data # None /\ j.cfg.show_srt_bar
                       THEN get_data_at_time(TheOne(j.srt_data), t) ELSE None} :
                /\ written' = Append(written,
                                     [i |-> wk.i, t_ms |-> t,
                                      srt_text |-> IF td # None THEN TheOne(td) ELSE ""])
                /\ wk' = [wk EXCEPT !.i = wk.i + 1, !.pc = "read"]
                /\ progress' =
                       IF (wk.i + 1) % Max(1, wk.n_out_frames \div 200) = 0
                       THEN Append(progress, wk.plan.pct[wk.i + 1])
                       ELSE progress
       ELSE /\ wk' = [wk EXCEPT !.pc = "finally", !.exc = how]
            /\ UNCHANGED <<written, progress>>
    /\ UNCHANGED <<job, proc, errpipe, drain, store, result, stop_flag, dec>>
    /\ UNCHANGED <<osdVars, fontVars, renderVars, probeVars, startVars, look, placed>>

\* except BrokenPipeError: pass; finally: enc_proc.stdin.close(); any other
\* error leaves _srt_only_pipeline and run() emits finished(False, str(e))
SrtFinally ==
    /\ wk.pc = "finally"
    /\ proc' = [proc EXCEPT !.stdin = "closed"]
    /\ IF wk.exc \in {"none", "BrokenPipeError"}
       THEN /\ wk' = [wk EXCEPT !.pc = "dec_wait"]
            /\ UNCHANGED result
       ELSE /\ wk' = [wk EXCEPT !.pc = "end"]
            /\ result' = Some([ok |-> FALSE, msg |-> [kind |-> "OSError"]])
    /\ UNCHANGED <<job, written, progress, errpipe, drain, store, stop_flag, dec>>
    /\ UNCHANGED <<osdVars, fontVars, renderVars, probeVars, startVars, look, placed>>

\* dec_proc.wait() returning
SrtDecWait ==
    /\ wk.pc = "dec_wait"
    /\ dec.state = "exited"
    /\ wk' = [wk EXCEPT !.pc = "enc_wait"]
    /\ UNCHANGED <<job, written, progress, proc, errpipe, drain, store, result, stop_flag, dec>>
    /\ UNCHANGED <<osdVars, fontVars, renderVars, probeVars, startVars, look, placed>>

\* enc_proc.wait() returning, the return code check, progress 100
SrtEncWait ==
    /\ wk.pc = "enc_wait"
    /\ proc.state = "exited"
    /\ proc' = [proc EXCEPT !.waited = TRUE]
    /\ wk' = [wk EXCEPT !.pc = "end"]
    /\ IF proc.returncode # 0
       THEN /\ result' = Some([ok |-> FALSE,
                               msg |-> [kind |-> "Encode failed",
                                        returncode |-> proc.returncode,
                                        tail |-> Suffix(store, 2000)]])
            /\ UNCHANGED progress
       ELSE /\ result' = Some([ok |-> TRUE, msg |-> ""])
            /\ progress' = Append(progress, 100)
    /\ UNCHANGED <<job, written, errpipe, drain, store, stop_flag, dec>>
    /\ UNCHANGED <<osdVars, fontVars, renderVars, probeVars, startVars, look, placed>>

\* the decoder writes one frame to its stdout; with the pipe full it blocks
DecoderWrites ==
    /\ dec.state = "running"
    /\ dec.left > 0
    /\ dec.out < DecPipeFrames
    /\ dec' = [dec EXCEPT !.left = dec.left - 1, !.out = dec.out + 1]
    /\ UNCHANGED exportVars
    /\ UNCHANGED <<osdVars, fontVars, renderVars, probeVars, startVars, look, placed>>

\* the decoder exits: after its last frame, or before (early) on an error
DecoderExits(early) ==
    /\ dec.state = "running"
    /\ dec.left = 0 \/ early
    /\ dec' = [dec EXCEPT !.state = "exited"]
    /\ UNCHANGED exportVars
    /\ UNCHANGED <<osdVars, fontVars, renderVars, probeVars, startVars, look, placed>>

NextSrtOnly ==
    \/ SrtSpawn
    \/ SrtRead
    \/ \E how \in {"written"} \cup WriteErrors : SrtWrite(how)
    \/ SrtFinally
    \/ SrtDecWait
    \/ SrtEncWait
    \/ DecoderWrites
    \/ \E early \in BOOLEAN : DecoderExits(early)
    \/ EncoderReads
    \/ \E c \in ErrChunks : EncoderLogs(c)
    \/ \E returncode \in {0, 1} : EncoderExits(returncode)
    \/ DrainRead
    \/ DrainEnds

SpecSrtOnly == InitSrtOnly /\ [][NextSrtOnly]_vars

\* every call of this process that can return does, every subprocess that
\* can go on does, and the encoder exits in the end
FairSrtOnly ==
    /\ SpecSrtOnly
    /\ WF_vars(SrtSpawn)
    /\ WF_vars(SrtRead)
    /\ WF_vars(\E how \in {"written"} \cup WriteErrors : SrtWrite(how))
    /\ WF_vars(SrtFinally)
    /\ WF_vars(SrtDecWait)
    /\ WF_vars(SrtEncWait)
    /\ WF_vars(DecoderWrites)
    /\ WF_vars(DecoderExits(FALSE))
    /\ WF_vars(EncoderReads)
    /\ WF_vars(\E returncode \in {0, 1} : EncoderExits(returncode))
    /\ WF_vars(DrainRead)
    /\ WF_vars(DrainEnds)

\* ------------------------------------------------------------------------
\* Claims about osd_parser.py (checked under SpecOsd)
\* ------------------------------------------------------------------------

NonDecreasing(ts) == \A i \in 1 .. Len(ts) - 1 : ts[i] <= ts[i + 1]
StrictlyIncreasing(ts) == \A i \in 1 .. Len(ts) - 1 : ts[i] < ts[i + 1]

Parsed == outcome = "ok"
Queried == outcome = "ok" /\ q_ret # None
TheOsd == TheOne(osd)
RetFrame == TheOsd.frames[TheOne(q_ret) + 1]

\* frame_at_time answered with the frame the claim describes: the greatest
\* timestamp <= t, or the first frame when t precedes every timestamp.
LatestAtOrBefore ==
    LET t == TheOne(q_time)
        ts == TheOsd.timestamps
        upto == {ts[k] : k \in {j \in 1 .. Len(ts) : ts[j] <= t}}
    IN  IF upto = {} THEN TheOne(q_ret) = 0
        ELSE RetFrame.time_ms = CHOOSE m \in upto : \A x \in upto : x <= m

\* C1 as stated: for every parsed log with at least one frame and every query
\* time t, frame_at_time(t) returns the frame whose time_ms is the greatest
\* timestamp <= t, and the first frame when t is below every timestamp.
C1_AnyLogLatestAtOrBefore == Queried => LatestAtOrBefore

\* C1 amended: the same, for every parsed log whose timestamps are
\* non-decreasing in file order (the parser neither checks nor restores this).
C1_SortedLogLatestAtOrBefore ==
    (Queried /\ NonDecreasing(TheOsd.timestamps)) => LatestAtOrBefore

\* C1 witness: timestamps [0, 500, 1000], t = 750 answered with index 1.
C1_Witness ==
    /\ Queried
    /\ TheOsd.timestamps = <<0, 500, 1000>>
    /\ q_time = Some(750)
    /\ q_ret = Some(1)

\* C2 as stated: for timestamps [t0..tN-1] in file order, frame_at_time(t_i)
\* returns the frame with index i, for every i.
C2_ExactTimeReturnsThatIndex ==
    Queried =>
        \A i \in 0 .. Len(TheOsd.timestamps) - 1 :
            TheOsd.timestamps[i + 1] = TheOne(q_time) => RetFrame.index = i

\* C2 amended: when the timestamps are non-decreasing in file order,
\* frame_at_time(t_i) returns the last frame whose timestamp is t_i; that is
\* frame i itself when the timestamps are strictly increasing.
C2_ExactTimeReturnsLastWithThatTime ==
    (Queried /\ NonDecreasing(TheOsd.timestamps)) =>
        LET ts == TheOsd.timestamps
            same == {k \in 0 .. Len(ts) - 1 : ts[k + 1] = TheOne(q_time)}
        IN  /\ same # {} => /\ RetFrame.index \in same
                            /\ \A k \in same : k <= RetFrame.index
            /\ StrictlyIncreasing(ts) => \A i \in same : RetFrame.index = i

\* C2 witness: a strictly increasing log queried at its middle timestamp.
C2_Witness ==
    /\ Queried
    /\ Len(TheOsd.timestamps) = 3
    /\ StrictlyIncreasing(TheOsd.timestamps)
    /\ q_time = Some(TheOsd.timestamps[2])
    /\ RetFrame.index = 1

\* the i-th frame (from 0) is the i-th record of the file
FrameIsRecord(i) ==
    LET fr == TheOsd.frames[i + 1]
        rec == raw.recs[i + 1]
    IN  /\ fr.index = i
        /\ fr.time_ms = rec.ts
        /\ \A c \in 0 .. 1059 : fr.grid[c] = ScreenCode(rec.screen, c)
        /\ TheOsd.timestamps[i + 1] = rec.ts

\* C3: a buffer of 40 + k*2124 + r bytes, k >= 1, 0 <= r < 2124, parses to
\* exactly k frames, frame i being the i-th record in file order, and the r
\* trailing bytes raise nothing.
C3_CompleteRecordsOnly ==
    (outcome # "none" /\ raw.len >= 40 + 2124) =>
        \E k \in 1 .. MaxFrames + 1 : \E r \in 0 .. 2123 :
            /\ raw.len = 40 + k * 2124 + r
            /\ outcome = "ok"
            /\ Len(TheOsd.frames) = k
            /\ Len(TheOsd.timestamps) = k
            /\ \A i \in 0 .. k - 1 : FrameIsRecord(i)

\* C3 witness: two complete records followed by 2123 bytes of a third.
C3_Witness ==
    /\ outcome = "ok"
    /\ raw.len = 40 + 2 * 2124 + 2123
    /\ Len(TheOsd.frames) = 2
    /\ TheOsd.frames[2].grid[1059] = 1023

\* C4: parse_osd raises the too-short error exactly when the buffer is shorter
\* than the 40-byte header, the no-frames error exactly when it has the header
\* but not one complete 2124-byte record; neither returns an OsdFile.
C4_FormatErrors ==
    outcome # "none" =>
        /\ (outcome = "too_small") <=> (raw.len < 40)
        /\ (outcome = "no_frames") <=> (raw.len >= 40 /\ raw.len < 40 + 2124)
        /\ outcome \in {"too_small", "no_frames"} => osd = None

\* C4 witness: a header and 2123 bytes are refused as a log without frames.
C4_Witness == outcome = "no_frames" /\ raw.len = 40 + 2123

\* Both errors are reached, the short one too.
C4_WitnessShort == outcome = "too_small" /\ raw.len = 39

FcType == TheOsd.stats.fc_type

\* C5 as stated: no tag makes parse_osd reject a log; a known tag gives the
\* mapped name, also after the stats were read off the first frame; any other
\* four bytes are kept verbatim as fc_type.
C5_TagVerbatim ==
    (outcome # "none" /\ raw.len >= 40 + 2124) =>
        /\ outcome = "ok"
        /\ raw.tag = TagBTFL => FcType = Some(StrBetaflight)
        /\ raw.tag = TagINAV => FcType = Some(StrINAV)
        /\ raw.tag \notin DOMAIN FC_TYPES => FcType = Some(raw.tag)

\* C5 amended: no tag makes parse_osd reject a log; a known tag gives the
\* mapped name, also after the stats were read off the first frame; any other
\* tag is decoded as ASCII (U+FFFD for a byte above 127), loses its trailing
\* NUL bytes and becomes "Unknown" when nothing is left, so that it is kept
\* verbatim exactly when it is four ASCII bytes not ending in NUL.
C5_TagDecoded ==
    (outcome # "none" /\ raw.len >= 40 + 2124) =>
        /\ outcome = "ok"
        /\ raw.tag = TagBTFL => FcType = Some(StrBetaflight)
        /\ raw.tag = TagINAV => FcType = Some(StrINAV)
        /\ raw.tag = TagABCD => FcType = Some(raw.tag)
        /\ raw.tag = TagAB => FcType = Some(<<65, 66>>)
        /\ raw.tag = TagNul => FcType = Some(StrUnknown)
        /\ raw.tag = TagHigh => FcType = Some(<<65533, 66, 67, 68>>)
        /\ (raw.tag = TagBTFL /\ Len(raw.recs) = 1 /\ raw.recs[1].ts = 0) =>
               frame_count(TheOsd) = 1 /\ duration_ms(TheOsd) = 0

\* C5 witness: a BTFL log whose first frame is a stats screen; the stats were
\* extracted and fc_type is Betaflight.
C5_Witness ==
    /\ outcome = "ok"
    /\ raw.tag = TagBTFL
    /\ TheOsd.stats.min_battery_v = Some([num |-> 352, exp |-> 2])
    /\ TheOsd.stats.min_rssi_pct = Some(45)
    /\ TheOsd.stats.total_arm_time = Some(<<48, 49, 58, 50, 51>>)
    /\ FcType = Some(StrBetaflight)

\* ------------------------------------------------------------------------
\* Claims about font_loader.py (checked under SpecFont)
\* ------------------------------------------------------------------------

Asked == gc_code # None
TheFont == TheOne(font)
TheCode == TheOne(gc_code)

\* the rectangle the data model addresses for a code: column code / 256, or
\* column 0 when the sheet has no such column, row code % 256
AddressedRect(f, code) ==
    [x |-> (IF code \div 256 < f.n_cols THEN code \div 256 ELSE 0) * f.tile_w,
     y |-> (code % 256) * f.tile_h,
     w |-> f.tile_w,
     h |-> f.tile_h]

\* C6: glyph addressing depends on (code, tile_w, tile_h, n_cols) alone: a code
\* with code / 256 >= n_cols resolves the rectangle of code % 256 in column 0,
\* a code with code / 256 < n_cols the rectangle (col*tile_w, row*tile_h,
\* tile_w, tile_h) with col = code / 256 and row = code % 256.
C6_GlyphAddressing ==
    Asked =>
        /\ TheCode \div 256 >= TheFont.n_cols => gc_ret = get_char(TheFont, TheCode % 256)
        /\ gc_ret # None => TheOne(gc_ret) = AddressedRect(TheFont, TheCode)

\* C6 witness: code 1279 (column 4, row 255) on a four-column sheet resolves
\* to the last tile of column 0.
C6_Witness ==
    /\ Asked
    /\ TheFont.n_cols = 4
    /\ TheFont.image.width = 96
    /\ TheCode = 1279
    /\ gc_ret = Some([x |-> 0, y |-> 255 * 36, w |-> 24, h |-> 36])

\* C6 witness of the other case: code 300 (column 1, row 44) of that sheet.
C6_WitnessInRange ==
    /\ Asked
    /\ TheFont.n_cols = 4
    /\ TheFont.image.width = 96
    /\ TheCode = 300
    /\ gc_ret = Some([x |-> 24, y |-> 44 * 36, w |-> 24, h |-> 36])

\* C7: get_char never raises, for any 16-bit code and any tile size, column
\* count and image size; it returns no glyph exactly when the addressed
\* rectangle extends beyond the image, and otherwise a bitmap of exactly
\* tile_w x tile_h pixels.
C7_NoGlyphIffOutOfBounds ==
    Asked =>
        LET r == AddressedRect(TheFont, TheCode)
            outside == r.x + r.w > TheFont.image.width \/ r.y + r.h > TheFont.image.height
        IN  /\ ~gc_raised
            /\ (gc_ret = None) <=> outside
            /\ gc_ret # None => /\ TheOne(gc_ret).w = TheFont.tile_w
                                /\ TheOne(gc_ret).h = TheFont.tile_h

\* C7 witness: the last column of a four-column layout on a sheet two tiles
\* wide lies outside the image: no glyph.
C7_Witness ==
    /\ Asked
    /\ TheFont.image.width = 48 /\ TheFont.tile_w = 24 /\ TheFont.n_cols = 4
    /\ TheCode = 1023
    /\ gc_ret = None
    /\ ~gc_raised

\* C7 witness of the other case: the last tile of a sheet that ends exactly
\* where the tile does is returned whole.
C7_WitnessLastTile ==
    /\ Asked
    /\ TheFont.image.width = 36 /\ TheFont.image.height = 54 * 256
    /\ TheCode = 255
    /\ gc_ret = Some([x |-> 0, y |-> 255 * 54, w |-> 36, h |-> 54])

\* the layout the format table of font_loader.py documents for a sheet that is
\* width pixels wide and 256 tiles of tile_h pixels tall
DocumentedLayout(width, tile_h) ==
    CASE <<width, tile_h>> \in {<<36, 54>>, <<24, 36>>, <<72, 54>>, <<48, 36>>,
                                <<36, 108>>, <<24, 72>>} -> Some(<<width, tile_h, 1>>)
      [] <<width, tile_h>> = <<144, 54>> -> Some(<<36, 54, 4>>)
      [] <<width, tile_h>> = <<96, 36>> -> Some(<<24, 36, 4>>)
      [] OTHER -> None

\* C8: _detect_layout reproduces the documented layout of every sheet size of
\* the format table: one column as wide as the sheet for the 36x54, 24x36,
\* 72x54, 48x36, 36x108 and 24x72 sheets, four columns for the 144 and 96
\* pixel wide Betaflight sheets, and never another column count.
C8_DocumentedLayouts ==
    \A f \in font :
        (f.name # "" /\ f.image.height % 256 = 0) =>
            LET doc == DocumentedLayout(f.image.width, f.image.height \div 256)
            IN  doc # None =>
                    /\ <<f.tile_w, f.tile_h, f.n_cols>> = TheOne(doc)
                    /\ f.n_cols \in {1, 4}

\* ------------------------------------------------------------------------
\* Claims about osd_renderer.py (checked under SpecRender)
\* ------------------------------------------------------------------------

\* the last rendering call was composite(None, "")
BlankComposite ==
    /\ c_call # None
    /\ TheOne(c_call).osd_frame = None
    /\ TheOne(c_call).srt_text = ""

\* the last rendering call was render_osd_frame with no OSD frame and no text
BlankPreview ==
    /\ pil_call # None
    /\ TheOne(pil_call).osd_frame = None
    /\ TheOne(pil_call).cfg.srt_text = ""

\* C9: compositing no OSD frame and an empty status text returns the frame
\* unchanged, whatever was composited before: composite returns its buffer
\* fully transparent, as it is at the start of every call, and
\* render_osd_frame returns an image equal to the RGBA frame it was given.
C9_IdentityLaw ==
    /\ BlankComposite => \A p \in DOMAIN frame_buf : frame_buf[p] = Transparent
    /\ BlankPreview => pil_ret = Some(TheOne(pil_call).frame_img)

\* composite(None, "") on a renderer that has drawn glyphs and a bar before
C9_Witness == BlankComposite /\ glyphs # <<>> /\ srt_cache # <<>>

\* render_osd_frame(img, None, font, cfg) with an empty text
C9_WitnessPreview == BlankPreview /\ pil_ret # None

\* C10: in every glyph paste and status-bar paste of composite a source
\* pixel of alpha 255 replaces the destination pixel, RGB and alpha, and a
\* source pixel of alpha 0 leaves the destination pixel as it was.
C10_OpaqueReplacesTransparentKeeps ==
    \A b \in c_pastes :
        /\ b.src[4] = 255 => b.out = b.src
        /\ b.src[4] = 0 => b.out = b.dst

\* the half of C10 that holds: an opaque source pixel replaces the destination
C10_OpaqueReplaces == \A b \in c_pastes : b.src[4] = 255 => b.out = b.src

\* an alpha-0 pixel of the status bar was blended over a translucent pixel
C10_TransparentOverTranslucent ==
    \E b \in c_pastes : b.kind = "srt" /\ b.src[4] = 0 /\ b.dst[4] \notin {0, 255}

\* ------------------------------------------------------------------------
\* Claims about the overlay export (checked under SpecExport)
\* ------------------------------------------------------------------------

\* the time a configured float stands for, in whole milliseconds
Millis(x) ==
    IF x.m = <<>> THEN 0
    ELSE BigToInt(BigShr(BigAdd(BigMulSmall(x.m, 2000), BigShl(BigOf(1), 0 - x.e)), 1 - x.e))

\* the trim window [start_s, end_s) of the job in milliseconds, an end of 0
\* standing for the end of the video; its frame rate, a whole number
WindowStart(j) == Millis(j.trim_start)
WindowEnd(j) == IF Millis(j.trim_end) = 0 THEN Millis(j.duration) ELSE Millis(j.trim_end)
FramesPerSecond(j) == F64Trunc(j.fps)

TelemetryIn(j, lo, hi) ==
    \E k \in 1 .. Len(j.osd_data.frames) :
        lo <= j.osd_data.frames[k].time_ms /\ j.osd_data.frames[k].time_ms < hi

\* the streaming phase is over and no write raised
StreamedAll == wk.pc \in {"finally", "wait", "end"} /\ wk.exc = "none"

\* C11: when telemetry exists in the trim window and every write returned,
\* stdin received exactly floor((end_s - start_s) * fps) frames (at least 1),
\* numbered 0, 1, 2, ... in order, frame i looked up at the whole millisecond
\* of start_s * 1000 + i * 1000 / fps.
C11_TrimmedFramesAndTimestamps ==
    \A j \in job :
        StreamedAll /\ TelemetryIn(j, WindowStart(j), WindowEnd(j)) =>
            /\ Len(written) =
                   Max(1, ((WindowEnd(j) - WindowStart(j)) * FramesPerSecond(j)) \div 1000)
            /\ \A k \in 1 .. Len(written) :
                   /\ "i" \in DOMAIN written[k]
                   /\ written[k].i = k - 1
                   /\ written[k].abs_t_ms =
                          (WindowStart(j) * FramesPerSecond(j) + (k - 1) * 1000)
                              \div FramesPerSecond(j)

\* the job ran to its end, no write raised and the encoder exited with 0
EndedClean ==
    wk.pc = "end" /\ wk.exc = "none" /\ proc.state = "exited" /\ proc.returncode = 0

IsBlank(data) == \A p \in DOMAIN data : data[p] = Transparent

\* C12: when no telemetry frame is stamped inside the trim window
\* [start_s, end_s), a job whose encoder exits with 0 has written exactly one
\* frame, fully transparent, and ends in success with a warning string.
C12_NoTelemetryOneBlankFrame ==
    \A j \in job :
        EndedClean /\ ~TelemetryIn(j, WindowStart(j), WindowEnd(j)) =>
            /\ Len(written) = 1
            /\ IsBlank(written[1].data)
            /\ \E r \in result : r.ok /\ r.msg # ""

\* C13: once ProcessWorker.stop() has run, nothing more is written to the
\* encoder's stdin and the encoder subprocess is not left running.
C13_StopEndsStreamingAndEncoder ==
    /\ [](stop_flag => proc.state # "running")
    /\ [][stop_flag => written' = written]_vars

\* the job failed on the encoder's return code
EncodeFailed(r) == ~r.ok /\ r.msg.kind \in {"Encode failed", "GPU encode failed"}

\* C14: a failure raised for a non-zero return code carries the tail of what
\* the encoder wrote to stderr (its last 2000 bytes, 800 for a GPU failure).
C14_FailureCarriesStderrTail ==
    \A r \in result :
        EncodeFailed(r) =>
            r.msg.tail = Suffix(Joined(proc.log),
                                IF r.msg.kind = "GPU encode failed" THEN 800 ELSE 2000)

\* a write found the encoder gone: a broken pipe, or EINVAL on Windows
PipeBroke == wk.exc \in {"BrokenPipeError", "EINVAL"}

C15_WitnessEinvalZero ==
    /\ wk.pc = "end"
    /\ wk.exc = "EINVAL"
    /\ proc.returncode = 0
    /\ \E r \in result : r.ok

\* C16: once the job has returned or raised, the encoder's stdin is closed
\* and the encoder has been waited for; it is never waited for with its
\* stdin still open.
C16_ClosedThenWaited ==
    /\ proc.state # "none" /\ proc.waited => proc.stdin = "closed"
    /\ wk.pc = "end" => proc.stdin = "closed" /\ proc.waited

\* ------------------------------------------------------------------------
\* Claims about the encoder probe (checked under SpecProbe)
\* ------------------------------------------------------------------------

\* C18: in one run of the program each candidate's test encode is spawned at
\* most once and _hw_probe_cache is assigned at most once; a call of
\* detect_hw_encoder that begins after another call has returned returns
\* what that call returned and never goes past the cache check. The export
\* worker can run while the startup thread is still probing, but it calls
\* detect_hw_encoder only with the check box checked, which the poll timer
\* allows only after the startup call has returned an encoder.
C18_ProbedOnceThenCached ==
    /\ \A i \in DOMAIN _HW_CANDIDATES : runs[i] <= 1
    /\ cache_writes <= 1
    /\ \A c \in {"startup", "export"} :
           thr[c].pc = "done" /\ thr[c].late =>
               /\ first_ret = Some(thr[c].ret)
               /\ ~thr[c].probed
               /\ thr[c].seen = Call("done").seen

\* the second export's call has returned the encoder the startup thread
\* found with its one test encode of the third candidate
C18_Witness ==
    /\ exports = 2
    /\ thr["export"].pc = "done"
    /\ thr["export"].late
    /\ thr["export"].ret = Some(HwInfo(3))
    /\ thr["startup"].ret = Some(HwInfo(3))
    /\ runs[1] = 1 /\ runs[3] = 1
    /\ cache_writes = 1

\* an export started while the startup thread waits for a test encode:
\* process_video makes no call
C18_WitnessDuringStartup ==
    /\ thr["startup"].pc = "test"
    /\ thr["export"].pc = "skipped"

\* C19: a call of detect_hw_encoder that probes returns the first candidate
\* of _HW_CANDIDATES that the encoder listing names (a listing that failed
\* names none) and whose test encode ended with exit code 0 or with a
\* non-zero exit code and no no-device phrase; every candidate before it was
\* either not listed, and then not test-encoded, or its test encode timed
\* out, raised, or named a no-device phrase; no candidate after it is
\* test-encoded; the call returns None only when no candidate qualifies.
C19_FirstUsableCandidate ==
    \A c \in {"startup", "export"} :
        thr[c].pc = "done" /\ thr[c].probed =>
            \E t \in {thr[c]} :
            \E Q \in {{i \in DOMAIN _HW_CANDIDATES :
                         /\ _HW_CANDIDATES[i].h264 \in t.compiled
                         /\ t.seen[i] \in {"zero", "nonzero"}}} :
                /\ t.compiled \subseteq {_HW_CANDIDATES[i].h264 : i \in binary}
                /\ \A i \in DOMAIN _HW_CANDIDATES :
                       _HW_CANDIDATES[i].h264 \notin t.compiled =>
                           t.seen[i] = "untested"
                /\ Q = {} =>
                       /\ t.ret = None
                       /\ \A i \in DOMAIN _HW_CANDIDATES :
                              _HW_CANDIDATES[i].h264 \in t.compiled =>
                                  t.seen[i] \in {"nodevice", "timeout", "error"}
                /\ Q # {} =>
                       \E i \in Q :
                           /\ \A j \in Q : i <= j
                           /\ t.ret = Some(HwInfo(i))
                           /\ \A j \in DOMAIN _HW_CANDIDATES :
                                  /\ j < i /\ _HW_CANDIDATES[j].h264 \in t.compiled =>
                                         t.seen[j] \in {"nodevice", "timeout", "error"}
                                  /\ j > i => t.seen[j] = "untested"

\* NVENC is listed and its test encode named no device, QSV is listed and
\* its test encode failed for another reason: QSV is returned, VAAPI is
\* never tried
C19_Witness ==
    /\ binary = {1, 3, 4}
    /\ thr["startup"].pc = "done"
    /\ thr["startup"].seen[1] = "nodevice"
    /\ thr["startup"].seen[3] = "nonzero"
    /\ thr["startup"].seen[4] = "untested"
    /\ thr["startup"].ret = Some(HwInfo(3))

\* every listed candidate was skipped, one of them for a timeout: None
C19_WitnessNone ==
    /\ binary = {2, 4}
    /\ thr["startup"].pc = "done"
    /\ thr["startup"].seen[2] = "timeout"
    /\ thr["startup"].seen[4] = "nodevice"
    /\ thr["startup"].ret = None

\* ------------------------------------------------------------------------
\* Claims about process_video (checked under SpecStart)
\* ------------------------------------------------------------------------

\* the job was given a log file, and no parsed log, that parse_osd rejects
MalformedLog ==
    \E c \in pconfig :
        /\ c.ffmpeg
        /\ c.osd_data = None
        /\ \E f \in c.osd_file : parse_osd(f).outcome \in {"too_small", "no_frames"}

\* C17: a job given a malformed telemetry log, too short or without a
\* complete frame, does not start: process_video goes no further than the
\* load, launches no encoder and produces no output.
C17_MalformedLogJobNotStarted ==
    MalformedLog =>
        /\ pv.pc \in {"begin", "end"}
        /\ spawns = <<>>
        /\ ~produced

\* the value of a formatted number, in tenths
Tenths(arg) ==
    IF Len(arg.digits) = 2 THEN arg.digits[1] * 10 + arg.digits[2]
    ELSE arg.digits[1] * 10

\* args carries flag followed by a number of that many tenths and "M"
HasRate(args, flag, tenths) ==
    \E i \in 1 .. Len(args) - 1 :
        /\ args[i] = Word(flag)
        /\ args[i + 1].text = "M"
        /\ args[i + 1].digits # <<>>
        /\ Tenths(args[i + 1]) = tenths

\* the flags that set a constant-quality factor
QualityFlags == {"-crf", "-cq", "-qp", "-qp_i", "-qp_p", "-global_quality"}

\* C20: with a target bitrate in the configuration, every encoder
\* invocation of the job, by the software encoder, by a hardware encoder or
\* by the re-encode-only path, carries -b:v with that bitrate, -maxrate
\* with 1.5 times and -bufsize with twice that bitrate, and no
\* constant-quality flag.
C20_BitrateInEveryInvocation ==
    \A c \in pconfig : \A b \in c.bitrate_mbps :
        \A n \in DOMAIN spawns :
            /\ HasRate(spawns[n].args, "-b:v", b * 10)
            /\ HasRate(spawns[n].args, "-maxrate", b * 15)
            /\ HasRate(spawns[n].args, "-bufsize", b * 20)
            /\ \A i \in DOMAIN spawns[n].args :
                   spawns[n].args[i].text \notin QualityFlags

\* ------------------------------------------------------------------------
\* Claims about the bounded caches (checked under SpecCache)
\* ------------------------------------------------------------------------

\* the step looked key up in the render loop's cache and found it
FrameHit == look' # None /\ TheOne(look').kind = "frame" /\ TheOne(look').hit

\* the step looked key up in the render loop's cache and did not find it
FrameMiss == look' # None /\ TheOne(look').kind = "frame" /\ ~TheOne(look').hit

\* the step asked _get_srt for a text it holds / does not hold
SrtHit == look' # None /\ TheOne(look').kind = "srt" /\ TheOne(look').hit
SrtMiss == look' # None /\ TheOne(look').kind = "srt" /\ ~TheOne(look').hit

\* after holds before without its first entry, followed by one entry of key
ShiftedIn(before, after, key) ==
    /\ Len(after) = Len(before)
    /\ SubSeq(after, 1, Len(after) - 1) = Tail(before)
    /\ after[Len(after)].key = key

\* after holds before followed by one entry of key
AddedTo(before, after, key) ==
    /\ Len(after) = Len(before) + 1
    /\ SubSeq(after, 1, Len(before)) = before
    /\ after[Len(after)].key = key

C22_SrtCacheAtMost512 == Len(srt_cache) <= SRT_CACHE_LIMIT

\* C26: in both caches a hit leaves the entries and their order as they
\* were, a new key put into a cache that is not full is added at the end,
\* and a new key put into a full cache (32 composited frames, 512 status
\* texts) takes the place of exactly one entry, the one inserted earliest.
C26_OldestInsertedEvicted ==
    [][/\ FrameHit => wk'.frame_cache = wk.frame_cache
       /\ FrameMiss =>
              IF Len(wk.frame_cache) >= _CACHE_MAX
              THEN ShiftedIn(wk.frame_cache, wk'.frame_cache, TheOne(look').key)
              ELSE AddedTo(wk.frame_cache, wk'.frame_cache, TheOne(look').key)
       /\ SrtHit => srt_cache' = srt_cache
       /\ SrtMiss =>
              IF Len(srt_cache) >= SRT_CACHE_LIMIT
              THEN ShiftedIn(srt_cache, srt_cache', TheOne(look').key)
              ELSE AddedTo(srt_cache, srt_cache', TheOne(look').key)]_vars

\* ------------------------------------------------------------------------
\* Claims about _drain (checked under SpecDrain)
\* ------------------------------------------------------------------------

\* the chunks _drain has read so far
ReadSoFar == SubSeq(proc.log, 1, Len(proc.log) - Len(errpipe))

\* the chunks kept are the last ones read, in the order read
KeptIsSuffix ==
    \E m \in 1 .. Len(ReadSoFar) + 1 : drain.chunks = SubSeq(ReadSoFar, m, Len(ReadSoFar))

\* C30: after every chunk _drain has processed, the bytes it keeps are at
\* most _STDERR_CAP (32 KiB) and are a suffix of the bytes read so far; the
\* store is written once, in the step that ends _drain (end of file or a
\* failed read), with the bytes kept then.
C30_DrainCappedSuffixStoredOnce ==
    /\ [](Total(drain.chunks) <= _STDERR_CAP /\ KeptIsSuffix)
    /\ [][store' # store \/ drain' # drain =>
              /\ drain.pc = "run"
              /\ \/ drain'.pc = "run" /\ store' = store
                 \/ drain'.pc = "done" /\ store' = Joined(drain.chunks)]_vars

\* _drain ended at end of file after ten reads, having dropped the first
\* chunks read and kept the rest
C30_Witness ==
    /\ drain.pc = "done"
    /\ errpipe = <<>>
    /\ Len(proc.log) = MaxDrained
    /\ store # <<>>
    /\ Head(store).seq > 2
    /\ Bytes(store) > _STDERR_CAP - 4096

\* ------------------------------------------------------------------------
\* Claims about the progress reports of an export (checked under SpecExport)
\* ------------------------------------------------------------------------

\* C23: every percent handed to progress_callback during one job is within
\* 0 .. 100, the percents never decrease in the order reported, and 100 is
\* reported only once the encoder has exited with return code 0 and been
\* waited for, never by a job that ends in failure.
C23_ProgressRisesTo100 ==
    /\ \A k \in 1 .. Len(progress) : progress[k] \in 0 .. 100
    /\ \A k \in 1 .. Len(progress) - 1 : progress[k] <= progress[k + 1]
    /\ (\E k \in 1 .. Len(progress) : progress[k] = 100) =>
           /\ proc.state = "exited"
           /\ proc.returncode = 0
           /\ proc.waited
           /\ \A res \in result : res.ok
    /\ \A res \in result : ~res.ok =>
           \A k \in 1 .. Len(progress) : progress[k] < 100

\* a job that reported from every frame of its render loop and ended with 100
C23_Witness ==
    /\ Len(progress) >= 5
    /\ progress[Len(progress)] = 100
    /\ \E k \in 1 .. Len(progress) : progress[k] \in 6 .. 89
    /\ \E res \in result : res.ok

\* ------------------------------------------------------------------------
\* Claims about the frames an export writes (checked under SpecExport)
\* ------------------------------------------------------------------------

\* the whole number of tenths / the whole number a float of a job stands for
TenthsOf(x) == CHOOSE n \in 0 .. 100 : F64Of(n, 10) = x
WholeOf(x) == CHOOSE n \in 0 .. 100 : F64FromInt(n) = x

\* telemetry frame k of job j is not later than output frame i, whose time is
\* _t_start * 1000 + i / fps * 1000 milliseconds
NotLater(j, k, i) ==
    j.osd_data.frames[k].time_ms * WholeOf(j.fps)
        <= TenthsOf(wk.t_start) * 100 * WholeOf(j.fps) + i * 1000

\* the index of the latest telemetry frame not later than output frame i
LatestAt(j, i) ==
    SetMax({j.osd_data.frames[k].index :
                k \in {k \in 1 .. Len(j.osd_data.frames) : NotLater(j, k, i)}})

\* C29: every output frame the export has written shows the latest telemetry
\* frame that is not later than the output frame's time, whenever there is
\* one; a blank overlay is written only if no output frame of the job has a
\* telemetry frame before it.
C29_MostRecentSnapshotShown ==
    \A j \in job : \A n \in 1 .. Len(written) :
        IF "i" \in DOMAIN written[n]
        THEN (\E k \in 1 .. Len(j.osd_data.frames) : NotLater(j, k, written[n].i))
                 => written[n].key[1] = LatestAt(j, written[n].i)
        ELSE \A i \in 0 .. wk.n_out_frames - 1 :
                 ~\E k \in 1 .. Len(j.osd_data.frames) : NotLater(j, k, i)

\* what a renderer built anew (empty glyph and status-text caches) composites
\* for output frame e of job j: the frame frame_at_time gives for the time of
\* e and the status text of that time
FreshComposite(j, r, e) ==
    composite(r, [p \in PixelsOf(r.w, r.h) |-> Transparent], <<>>, <<>>,
              Some(j.osd_data.frames[TheOne(frame_at_time(j.osd_data, e.abs_t_ms)) + 1]),
              IF j.srt_data # None /\ r.cfg.show_srt_bar
                 /\ get_data_at_time(TheOne(j.srt_data), e.abs_t_ms) # None
              THEN TheOne(get_data_at_time(TheOne(j.srt_data), e.abs_t_ms))
              ELSE "").frame

\* the output frames the render loop has written
LoopFrames == {n \in 1 .. Len(written) : "i" \in DOMAIN written[n]}

\* C25: every frame the render loop writes, taken from _frame_cache or just
\* rendered, is what a fresh composite of (frame_at_time(abs_t_ms), status
\* text) gives; two frames written under the same cache key are equal; and
\* an entry of _frame_cache still holds what was written under its key,
\* whatever was composited on the frame buffer since.
C25_CacheTransparent ==
    /\ [](/\ \A m, n \in LoopFrames :
                 written[m].key = written[n].key => written[m].data = written[n].data
          /\ \A k \in 1 .. Len(wk.frame_cache) : \A n \in LoopFrames :
                 written[n].key = wk.frame_cache[k].key
                     => written[n].data = wk.frame_cache[k].data)
    /\ [][Len(written') > Len(written) /\ Len(written') \in LoopFrames' =>
              \A j \in job : \A r \in rdr :
                  written'[Len(written')].data
                      = FreshComposite(j, r, written'[Len(written')])]_vars

\* a frame taken from the cache after its entry was made and other frames
\* were composited on the buffer since
C25_Witness ==
    /\ Len(wk.frame_cache) >= 2
    /\ \E m, n \in LoopFrames :
           /\ m + 1 < n
           /\ written[m].key = written[n].key
           /\ written[m + 1].key = written[n].key
           /\ \E q \in LoopFrames : q < m /\ written[q].key # written[m].key

\* ------------------------------------------------------------------------
\* Claims about the placement of glyphs (checked under SpecPlace)
\* ------------------------------------------------------------------------

\* the pixels of a w x h frame inside the rectangle of a placed glyph
OnFrame(b, w, h) ==
    {p \in PixelsOf(w, h) : /\ b.px <= p[1] /\ p[1] < b.px + b.tw
                            /\ b.py <= p[2] /\ p[2] < b.py + b.th}

\* both skipped, or both drawn at the same place with the same tile size
SamePlace(a, b) ==
    /\ a = None <=> b = None
    /\ \A x \in a : \A y \in b :
           x.px = y.px /\ x.py = y.py /\ x.tw = y.tw /\ x.th = y.th

\* what the other renderer does with a cell: the slice composite blends for
\* a cell given to render_osd_frame, the box render_osd_frame pastes for a
\* cell given to composite
Counterpart(r, pl) ==
    IF pl.by = "composite"
    THEN pil_place(r.w, r.h, pil_geo(r.w, r.h, TheOne(r.font), r.cfg), pl.row, pl.col)
    ELSE clip(r, pl.row, pl.col)

\* C27: for the same video size, font, scale and offsets and the same cell,
\* render_osd_frame and OsdRenderer.composite skip the same cells and put
\* the glyph of a drawn cell at the same position with the same tile size;
\* the pixels one of them changes are those of the other's rectangle that
\* lie on the frame.
C27_RenderersAgreeOnPlacement ==
    \A pl \in placed : \A r \in rdr :
        /\ SamePlace(pl.box, Counterpart(r, pl))
        /\ IF Counterpart(r, pl) = None THEN pl.changed = {}
           ELSE pl.changed = OnFrame(TheOne(Counterpart(r, pl)), r.w, r.h)

\* a glyph of two by two pixels drawn by composite across the left edge
C27_Witness ==
    \E pl \in placed : \E b \in pl.box :
        /\ pl.by = "composite"
        /\ b.tw = 2
        /\ b.px < 0
        /\ pl.changed # {}

\* C28: for every cell composite does not skip, the destination slice lies
\* within the frame, the source slice within the glyph, both have the same
\* shape with at least one pixel, the destination slice is the part of the
\* glyph's rectangle that lies on the frame, and composite changes no pixel
\* outside it; a skipped cell changes nothing.
C28_ClippedToIntersection ==
    \A pl \in placed : \A r \in rdr :
        pl.by = "composite" =>
            /\ pl.box = None => pl.changed = {}
            /\ \A b \in pl.box :
                   /\ 0 <= b.py0 /\ b.py0 < b.py1 /\ b.py1 <= r.h
                   /\ 0 <= b.px0 /\ b.px0 < b.px1 /\ b.px1 <= r.w
                   /\ 0 <= b.gy0 /\ b.gy0 < b.gy1 /\ b.gy1 <= b.th
                   /\ 0 <= b.gx0 /\ b.gx0 < b.gx1 /\ b.gx1 <= b.tw
                   /\ b.py1 - b.py0 = b.gy1 - b.gy0
                   /\ b.px1 - b.px0 = b.gx1 - b.gx0
                   /\ (b.px0 .. b.px1 - 1) \X (b.py0 .. b.py1 - 1) = OnFrame(b, r.w, r.h)
                   /\ pl.changed \subseteq OnFrame(b, r.w, r.h)

\* a glyph of two by two pixels cut by the right and the bottom edge
C28_Witness ==
    \E pl \in placed : \E r \in rdr : \E b \in pl.box :
        /\ pl.by = "composite"
        /\ b.px + b.tw > r.w
        /\ b.py + b.th > r.h
        /\ pl.changed # {}

\* ------------------------------------------------------------------------
\* Claims about the end of an export (checked under FairSrtOnly)
\* ------------------------------------------------------------------------

\* the decoder has frames left, its stdout pipe is full, and the loop that
\* read the pipe is over
DecoderBlocked ==
    /\ dec.state = "running"
    /\ dec.left > 0
    /\ dec.out = DecPipeFrames
    /\ wk.pc \in {"finally", "dec_wait", "enc_wait", "end"}

\* C24: the export never waits for a subprocess that is blocked writing to
\* a pipe this process no longer reads, and, the subprocesses going on
\* whenever they can, the job returns or raises in the end; also when the
\* encoder exits early.
C24_JobEndsAndNeverWaitsOnBlocked ==
    /\ [](~(wk.pc \in {"dec_wait", "enc_wait"} /\ DecoderBlocked))
    /\ <>(wk.pc = "end")

====
